---- MODULE Spec2Model ----
(***************************************************************************)
(* A model of the nwrfc abstraction layer (src/src/protocol): the          *)
(* Connection facade, the owning handle wrappers (FunctionDescription,     *)
(* TypeDescription, Function, Structure) and the SAP unicode codec.        *)
(* The foreign library (crate::_unsafe, generated bindings) is modelled as *)
(* an environment whose return codes are chosen nondeterministically.      *)
(***************************************************************************)
EXTENDS Integers, Sequences, FiniteSets, TLC

\* ------------------------------------------------------------------ bounds
\* How many connection handles the foreign library hands out.
MaxOpens == 2
\* Logical threads of control of the caller.
MaxThreads == 2
\* How many description, function and structure handles the program creates.
MaxHandles == 2
\* How many owning wrapper values of one handle exist at a time.
MaxOwners == 2
\* The longest text converted, in characters.
MaxLen == 2
\* The trailing NUL units of a fixed-size source of a decode.
MaxPad == 1
\* How many foreign calls of one conversion are followed.
MaxCalls == 3
\* The longest fixed-capacity target of an encode, in units.
MaxCap == 3
\* The capacity of a text field of the error structure, in units.
FieldCap == 2
\* The capacity of a name (RFC_ABAP_NAME), in units.
NameCap == 2
\* The entries (fields, parameters, exceptions) a program adds in all.
MaxEntries == 2
\* The pairs a connection parameter list holds at most.
MaxPairs == 2
\* The connection parameter lists a program makes: a list and its clones.
MaxLists == 2
\* The calls of next a program makes on one iterator.
MaxNext == 4
\* The bits of an unsigned machine word (u32).
WordBits == 4

\* --------------------------------------------------------------- constants
\* ptr::null_mut(): the handle of a Connection that is not live.
NULL == 0

RFC_OK == "RFC_OK"
RFC_COMMUNICATION_FAILURE == "RFC_COMMUNICATION_FAILURE"
RFC_INVALID_HANDLE == "RFC_INVALID_HANDLE"
RFC_BUFFER_TOO_SMALL == "RFC_BUFFER_TOO_SMALL"
RFC_CONVERSION_FAILURE == "RFC_CONVERSION_FAILURE"

RFC_MEMORY_INSUFFICIENT == "RFC_MEMORY_INSUFFICIENT"
RFC_NOT_FOUND == "RFC_NOT_FOUND"
RFC_INVALID_PARAMETER == "RFC_INVALID_PARAMETER"

ConnHandles == 1..MaxOpens
Threads == 1..MaxThreads
\* No thread: the null of the thread ids.
NoThread == NULL
NoCall == [t |-> NoThread, h |-> NULL]

\* The handles the program has created through the foreign create entry points.
CreatedHandles == 1..MaxHandles
\* The descriptions of the foreign library's repository cache (one type, one
\* function), which RfcGetTypeDesc and RfcGetFunctionDesc hand out.
CachedTypeDesc == MaxHandles + 1
CachedFuncDesc == MaxHandles + 2
CacheHandles == {CachedTypeDesc, CachedFuncDesc}
Handles == CreatedHandles \cup CacheHandles
Kinds == {"TypeDesc", "FuncDesc", "Function", "Structure"}

VARIABLES
    conn,       \* "absent" | "present": whether a Connection value exists
    handle,     \* Connection.handle: NULL or a connection handle
    owner,      \* the thread that holds the Connection value (NoThread if absent)
    inCall,     \* the call that is blocked in the foreign library over the
                \* Connection: its thread and the handle it passed, or NoCall
    connLive,   \* foreign side: the connection handles that are open
    nextConn,   \* foreign side: the next connection handle RfcOpenConnection returns
    last,       \* the last operation: its name, the handle it worked on, the
                \* foreign calls it made, what it returned, and how it came to
                \* pass a handle to the foreign library that had been passed to
                \* destroy before (stale: "owner" through a wrapper that holds
                \* the handle, "field" through a field's typeDescHandle)
    panicked,   \* a panic! was raised (the teardown path is fatal)
    kind,       \* foreign side: what each handle was created as ("none": not yet)
    owners,     \* how many owning wrapper values hold each handle
    bare,       \* the bare handle values the caller holds (raw pointers, Copy)
    destroyed,  \* foreign side: the handles that were passed to their destroy
                \* entry point
    refs,       \* foreign side: the typeDescHandle values stored in the fields
                \* of each type description
    descs,      \* foreign side: the content of each type description: its
                \* fields (RFC_FIELD_DESC) in order and its total lengths
    funcs,      \* foreign side: the content of each function description:
                \* its parameters and its exceptions in order
    added,      \* what the caller has added with success: description,
                \* name, direction and type of each field and parameter
    ret,        \* the last builder, lookup or length call: its name, its
                \* arguments, the description before it, and what it returned
    dt,         \* the date under construction: the year, month and day asked
                \* for, what Date::new made of them, and what was read back
    cp,         \* the connection parameter lists (a list and its clone), the
                \* strings they allocated, and the last call on them
    er,         \* the error record conversion: the foreign error structure
                \* received, the RfcError made of it, and the structure made
                \* of that RfcError
    cv          \* the codec conversion in progress or just finished: what it is,
                \* its text, the buffer length of its next foreign call, the
                \* foreign calls it has made, and how it stands

connVars == <<conn, handle, owner, inCall, connLive, nextConn>>

wrapperVars == <<kind, owners, bare, destroyed, refs>>

codecVars == <<cv>>

errorVars == <<er>>

descVars == <<descs, funcs, added, ret>>

valueVars == <<dt, cp>>

vars == <<conn, handle, owner, inCall, connLive, nextConn, last, panicked,
          kind, owners, bare, destroyed, refs, cv, er, descs, funcs, added, ret,
          dt, cp>>

\* ------------------------------------------------- the foreign entry points
\* One foreign call as the operation logs it.
Call(fn, h, rc) == [fn |-> fn, h |-> h, rc |-> rc]

\* RfcOpenConnection: a fresh handle, or a failure.
RfcOpenConnection == {RFC_OK, RFC_COMMUNICATION_FAILURE}

\* RfcCloseConnection(h): an open handle is closed or the close fails;
\* a handle that is not open is rejected.
RfcCloseConnection(h) ==
    IF h \in connLive THEN {RFC_OK, RFC_COMMUNICATION_FAILURE} ELSE {RFC_INVALID_HANDLE}

\* RfcCancel(h): as RfcCloseConnection.
RfcCancel(h) ==
    IF h \in connLive THEN {RFC_OK, RFC_COMMUNICATION_FAILURE} ELSE {RFC_INVALID_HANDLE}

\* RfcPing(h): answers on an open handle, or reports the broken connection;
\* a handle that is not open (NULL included) is rejected.
RfcPing(h) ==
    IF h \in connLive THEN {RFC_OK, RFC_COMMUNICATION_FAILURE} ELSE {RFC_INVALID_HANDLE}

\* RfcGetConnectionAttributes(h): as RfcPing.
RfcGetConnectionAttributes(h) ==
    IF h \in connLive THEN {RFC_OK, RFC_COMMUNICATION_FAILURE} ELSE {RFC_INVALID_HANDLE}

\* ------------------------------------------------------------- utils.rs
\* check_rc: RFC_OK is success, every other code an Error Record.
check_rc(rc) == IF rc = RFC_OK THEN "Ok" ELSE "Err"

\* ---------------------------------------------------------- connection.rs
\* Connection::is_alive
is_alive(h) == h # NULL

\* Connection::_open with the mutant that stores what RfcOpenConnection
\* returned whatever the code.
_open_stores_on_failure(h, live, next, rc) ==
    IF check_rc(rc) = "Ok"
    THEN [handle |-> next, live |-> live \cup {next}, next |-> next + 1,
          calls |-> <<Call("RfcOpenConnection", NULL, rc)>>, result |-> "Ok"]
    ELSE [handle |-> next, live |-> live, next |-> next,
          calls |-> <<Call("RfcOpenConnection", NULL, rc)>>, result |-> "Err"]

\* Connection::_open on a Connection whose handle is h, the foreign library
\* having the handles `live` open and handing out `next`: the outcome for the
\* code rc of RfcOpenConnection.
_open(h, live, next, rc) ==
    IF check_rc(rc) = "Ok"
    THEN [handle |-> next, live |-> live \cup {next}, next |-> next + 1,
          calls |-> <<Call("RfcOpenConnection", NULL, rc)>>, result |-> "Ok"]
    ELSE [handle |-> h, live |-> live, next |-> next,
          calls |-> <<Call("RfcOpenConnection", NULL, rc)>>, result |-> "Err"]

\* Connection::close with the mutant that forgets the is_alive check.
close_unguarded(h, live, rc) ==
    IF check_rc(rc) = "Ok"
    THEN [handle |-> NULL, live |-> live \ {h},
          calls |-> <<Call("RfcCloseConnection", h, rc)>>, result |-> "Ok"]
    ELSE [handle |-> h, live |-> live,
          calls |-> <<Call("RfcCloseConnection", h, rc)>>, result |-> "Err"]

\* Connection::close on handle h: the outcome for the code rc of
\* RfcCloseConnection (which is not called when the connection is not live).
close(h, live, rc) ==
    IF ~is_alive(h)
    THEN [handle |-> h, live |-> live, calls |-> <<>>, result |-> "Ok"]
    ELSE IF check_rc(rc) = "Ok"
    THEN [handle |-> NULL, live |-> live \ {h},
          calls |-> <<Call("RfcCloseConnection", h, rc)>>, result |-> "Ok"]
    ELSE [handle |-> h, live |-> live,
          calls |-> <<Call("RfcCloseConnection", h, rc)>>, result |-> "Err"]

\* Connection::cancel with the mutant that clears the handle before it looks
\* at the code.
cancel_clears_on_failure(h, live, rc) ==
    IF ~is_alive(h)
    THEN [handle |-> h, live |-> live, calls |-> <<>>, result |-> "Ok"]
    ELSE [handle |-> NULL, live |-> IF check_rc(rc) = "Ok" THEN live \ {h} ELSE live,
          calls |-> <<Call("RfcCancel", h, rc)>>, result |-> check_rc(rc)]

\* Connection::cancel on handle h, for the code rc of RfcCancel.
cancel(h, live, rc) ==
    IF ~is_alive(h)
    THEN [handle |-> h, live |-> live, calls |-> <<>>, result |-> "Ok"]
    ELSE IF check_rc(rc) = "Ok"
    THEN [handle |-> NULL, live |-> live \ {h},
          calls |-> <<Call("RfcCancel", h, rc)>>, result |-> "Ok"]
    ELSE [handle |-> h, live |-> live,
          calls |-> <<Call("RfcCancel", h, rc)>>, result |-> "Err"]

\* Connection::ping with the mutant that reports success whatever the code.
ping_always_ok(h, rc) ==
    [handle |-> h, calls |-> <<Call("RfcPing", h, rc)>>, result |-> "Ok"]

\* Connection::ping with the mutant that drops the handle of a broken connection.
ping_closes_on_failure(h, rc) ==
    [handle |-> IF rc = RFC_OK THEN h ELSE NULL,
     calls |-> <<Call("RfcPing", h, rc)>>,
     result |-> IF rc = RFC_OK THEN "Ok" ELSE "Err"]

\* Connection::ping on handle h, for the code rc of RfcPing: &self, the handle
\* is passed as it is and stays as it is.
ping(h, rc) ==
    [handle |-> h, calls |-> <<Call("RfcPing", h, rc)>>,
     result |-> IF rc = RFC_OK THEN "Ok" ELSE "Err"]

\* Connection::attributes
attributes(h, rc) ==
    [handle |-> h, calls |-> <<Call("RfcGetConnectionAttributes", h, rc)>>,
     result |-> check_rc(rc)]

\* impl Drop for Connection with the mutant that swallows the close error.
drop_swallow_error(h, live, rc) ==
    [close |-> close(h, live, rc), panic |-> FALSE]

\* impl Drop for Connection: close, and panic when the close fails.
drop(h, live, rc) ==
    LET c == close(h, live, rc) IN [close |-> c, panic |-> c.result = "Err"]

\* The caller can start an operation on the Connection: the value exists, the
\* process has not aborted, and no call over it is outstanding. The Connection
\* holds a raw pointer and is neither Send nor Sync, so only its owner thread
\* reaches it, and every operation blocks that thread until it returns.
CanCall(t) ==
    /\ conn = "present"
    /\ ~panicked
    /\ t = owner
    /\ inCall = NoCall

NoOp == [op |-> "none", pre |-> NULL, calls |-> <<>>, result |-> "Ok", stale |-> {}]

Done(op, pre, calls, result) ==
    [op |-> op, pre |-> pre, calls |-> calls, result |-> result, stale |-> {}]

DoneStale(op, pre, calls, result, stale) ==
    [op |-> op, pre |-> pre, calls |-> calls, result |-> result, stale |-> stale]

\* No handle has been created and the caller holds none.
\* A type description as RfcCreateTypeDesc makes it.
EmptyTypeDesc == [fields |-> <<>>, nuc |-> 0, uc |-> 0]

\* A function description as RfcCreateFunctionDesc makes it.
EmptyFuncDesc == [params |-> <<>>, excs |-> <<>>]

\* No builder or lookup call has been made.
NoCallYet == [op |-> "none"]

\* No date has been asked for.
NoDate == [stage |-> "none"]

\* No connection parameter list has been made.
NoLists == [lists |-> <<>>, heap |-> <<>>, call |-> [op |-> "none"]]

\* No error structure has been received.
NoError == [stage |-> "none"]

\* No conversion has been asked for.
Idle == [op |-> "idle", via |-> "none", text |-> <<>>, uc |-> <<>>, buf |-> 0,
         calls |-> 0, rc |-> "none", state |-> "Ok", out |-> <<>>]

WrapperInit ==
    /\ kind = [h \in Handles |-> "none"]
    /\ owners = [h \in Handles |-> 0]
    /\ bare = {}
    /\ destroyed = {}
    /\ refs = [h \in Handles |-> {}]

ConnInit ==
    /\ conn = "absent"
    /\ handle = NULL
    /\ owner = NoThread
    /\ inCall = NoCall
    /\ connLive = {}
    /\ nextConn = 1
    /\ last = NoOp
    /\ panicked = FALSE
    /\ WrapperInit
    /\ cv = Idle
    /\ er = NoError
    /\ descs = [h \in CreatedHandles |-> EmptyTypeDesc]
    /\ funcs = [h \in CreatedHandles |-> EmptyFuncDesc]
    /\ added = {}
    /\ ret = NoCallYet
    /\ dt = NoDate
    /\ cp = NoLists

\* Connection::open(params): a Connection with a null handle is built, _open
\* is run on it, and on an error the value is dropped again (not live: no
\* foreign close) and the error returned.
Open(t) ==
    /\ conn = "absent"
    /\ ~panicked
    /\ nextConn <= MaxOpens
    /\ \E rc \in RfcOpenConnection :
        LET o == _open(NULL, connLive, nextConn, rc)
            d == drop(o.handle, o.live, RFC_INVALID_HANDLE)
        IN /\ handle' = o.handle
           /\ connLive' = o.live
           /\ nextConn' = o.next
           /\ conn' = IF o.result = "Ok" THEN "present" ELSE "absent"
           /\ owner' = IF o.result = "Ok" THEN t ELSE NoThread
           /\ last' = Done("open", NULL,
                           IF o.result = "Ok" THEN o.calls ELSE o.calls \o d.close.calls,
                           o.result)
    /\ UNCHANGED <<inCall, panicked, wrapperVars, codecVars, errorVars, valueVars, descVars>>

Close(t) ==
    /\ CanCall(t)
    /\ \E rc \in RfcCloseConnection(handle) :
        LET o == close(handle, connLive, rc)
        IN /\ handle' = o.handle
           /\ connLive' = o.live
           /\ last' = Done("close", handle, o.calls, o.result)
    /\ UNCHANGED <<conn, owner, inCall, nextConn, panicked, wrapperVars, codecVars, errorVars, valueVars, descVars>>

Cancel(t) ==
    /\ CanCall(t)
    /\ \E rc \in RfcCancel(handle) :
        LET o == cancel(handle, connLive, rc)
        IN /\ handle' = o.handle
           /\ connLive' = o.live
           /\ last' = Done("cancel", handle, o.calls, o.result)
    /\ UNCHANGED <<conn, owner, inCall, nextConn, panicked, wrapperVars, codecVars, errorVars, valueVars, descVars>>

\* Connection::reopen with the mutant that drops the `?`: self.close();
\* self._open()
Reopen_ignores_close_error(t) ==
    /\ CanCall(t)
    /\ nextConn <= MaxOpens
    /\ \E rc1 \in RfcCloseConnection(handle), rc2 \in RfcOpenConnection :
        LET c == close(handle, connLive, rc1)
            o == _open(c.handle, c.live, nextConn, rc2)
        IN /\ handle' = o.handle
           /\ connLive' = o.live
           /\ nextConn' = o.next
           /\ last' = Done("reopen", handle, c.calls \o o.calls, o.result)
    /\ UNCHANGED <<conn, owner, inCall, panicked, wrapperVars, codecVars, errorVars, valueVars, descVars>>

\* Connection::reopen: self.close()?; self._open()
Reopen(t) ==
    /\ CanCall(t)
    /\ nextConn <= MaxOpens
    /\ \E rc1 \in RfcCloseConnection(handle), rc2 \in RfcOpenConnection :
        LET c == close(handle, connLive, rc1)
            o == _open(c.handle, c.live, nextConn, rc2)
        IN IF c.result = "Err"
           THEN /\ handle' = c.handle
                /\ connLive' = c.live
                /\ nextConn' = nextConn
                /\ last' = Done("reopen", handle, c.calls, "Err")
           ELSE /\ handle' = o.handle
                /\ connLive' = o.live
                /\ nextConn' = o.next
                /\ last' = Done("reopen", handle, c.calls \o o.calls, o.result)
    /\ UNCHANGED <<conn, owner, inCall, panicked, wrapperVars, codecVars, errorVars, valueVars, descVars>>

\* Connection::ping, entered: the thread blocks in RfcPing.
PingCall(t) ==
    /\ CanCall(t)
    /\ inCall' = [t |-> t, h |-> handle]
    /\ UNCHANGED <<conn, handle, owner, connLive, nextConn, last, panicked, wrapperVars, codecVars, errorVars, valueVars, descVars>>

\* Connection::ping, returning with the code of RfcPing.
PingReturn(t) ==
    /\ conn = "present"
    /\ ~panicked
    /\ inCall # NoCall
    /\ inCall.t = t
    /\ \E rc \in RfcPing(inCall.h) :
        LET o == ping(handle, rc)
        IN /\ handle' = o.handle
           /\ last' = Done("ping", inCall.h, o.calls, o.result)
    /\ inCall' = NoCall
    /\ UNCHANGED <<conn, owner, connLive, nextConn, panicked, wrapperVars, codecVars, errorVars, valueVars, descVars>>

Attributes(t) ==
    /\ CanCall(t)
    /\ \E rc \in RfcGetConnectionAttributes(handle) :
        LET o == attributes(handle, rc)
        IN /\ handle' = o.handle
           /\ last' = Done("attributes", handle, o.calls, o.result)
    /\ UNCHANGED <<conn, owner, inCall, connLive, nextConn, panicked, wrapperVars, codecVars, errorVars, valueVars, descVars>>

\* The Connection value goes out of scope: impl Drop for Connection.
DropConnection(t) ==
    /\ CanCall(t)
    /\ \E rc \in RfcCloseConnection(handle) :
        LET d == drop(handle, connLive, rc)
        IN /\ handle' = d.close.handle
           /\ connLive' = d.close.live
           /\ panicked' = d.panic
           /\ last' = Done("drop", handle, d.close.calls,
                           IF d.panic THEN "Panic" ELSE "Ok")
    /\ conn' = "absent"
    /\ owner' = NoThread
    /\ UNCHANGED <<inCall, nextConn, wrapperVars, codecVars, errorVars, valueVars, descVars>>

\* ------------------------------------------------- the owning handle wrappers
\* The create entry points (RfcCreateTypeDesc, RfcCreateFunctionDesc,
\* RfcCreateFunction, RfcCreateStructure): a new handle, or a failure.
RfcCreate == {RFC_OK, RFC_MEMORY_INSUFFICIENT}

\* The destroy entry points (RfcDestroyTypeDesc, RfcDestroyFunctionDesc,
\* RfcDestroyFunction, RfcDestroyStructure): done, or the handle is rejected.
RfcDestroy == {RFC_OK, RFC_INVALID_HANDLE}

\* RfcAddTypeField / RfcSetTypeLength
RfcAddTypeField == {RFC_OK, RFC_MEMORY_INSUFFICIENT}

\* RfcGetTypeDesc(h, name) / RfcGetFunctionDesc(h, name): served from the
\* repository cache over an open connection, or the lookup fails; a handle
\* that is not open is rejected.
RfcGetTypeDesc(h) ==
    IF h \in connLive THEN {RFC_OK, RFC_COMMUNICATION_FAILURE} ELSE {RFC_INVALID_HANDLE}

RfcGetFunctionDesc(h) ==
    IF h \in connLive THEN {RFC_OK, RFC_COMMUNICATION_FAILURE} ELSE {RFC_INVALID_HANDLE}

\* The foreign library has a handle left to hand out, and which: handles are
\* not reused.
HasFresh == \E h \in CreatedHandles : kind[h] = "none"

FreshHandle ==
    CHOOSE h \in CreatedHandles :
        kind[h] = "none" /\ \A g \in CreatedHandles : g < h => kind[g] # "none"

\* The handles a traversal of the type description h passes to the foreign
\* library: h itself and, through the typeDescHandle of each Structure/Table
\* field, the nested descriptions (TypeDesc::inlineable over field_type()).
RECURSIVE ReachN(_, _)
ReachN(S, n) ==
    IF n = 0 THEN S ELSE ReachN(S \cup UNION {refs[x] : x \in S}, n - 1)

inlineable(h) == ReachN({h}, Cardinality(Handles))

\* Whether one of the handles S, passed to a foreign entry point by way of
\* `via`, was passed to destroy before.
Uses(S, via) == IF S \cap destroyed # {} THEN {via} ELSE {}

\* A wrapper value of kind k holding h is in the caller's hands.
Holds(h, k) == ~panicked /\ kind[h] = k /\ owners[h] > 0

\* TypeDescription::new
NewTypeDescription ==
    /\ ~panicked
    /\ HasFresh
    /\ \E rc \in RfcCreate :
        LET h == FreshHandle
        IN IF check_rc(rc) = "Ok"
           THEN /\ kind' = [kind EXCEPT ![h] = "TypeDesc"]
                /\ owners' = [owners EXCEPT ![h] = 1]
                /\ last' = Done("TypeDescription::new", NULL, <<>>, "Ok")
           ELSE /\ UNCHANGED <<kind, owners>>
                /\ last' = Done("TypeDescription::new", NULL, <<>>, "Err")
    /\ UNCHANGED <<connVars, codecVars, errorVars, valueVars, descVars, panicked, bare, destroyed, refs>>

\* FunctionDescription::new
NewFunctionDescription ==
    /\ ~panicked
    /\ HasFresh
    /\ \E rc \in RfcCreate :
        LET h == FreshHandle
        IN IF check_rc(rc) = "Ok"
           THEN /\ kind' = [kind EXCEPT ![h] = "FuncDesc"]
                /\ owners' = [owners EXCEPT ![h] = 1]
                /\ last' = Done("FunctionDescription::new", NULL, <<>>, "Ok")
           ELSE /\ UNCHANGED <<kind, owners>>
                /\ last' = Done("FunctionDescription::new", NULL, <<>>, "Err")
    /\ UNCHANGED <<connVars, codecVars, errorVars, valueVars, descVars, panicked, bare, destroyed, refs>>

\* impl TryFrom<&FuncDesc> for Function: RfcCreateFunction on the handle of
\* the function description d.
CreateFunction(d) ==
    /\ Holds(d, "FuncDesc")
    /\ HasFresh
    /\ \E rc \in RfcCreate :
        LET h == FreshHandle
        IN IF check_rc(rc) = "Ok"
           THEN /\ kind' = [kind EXCEPT ![h] = "Function"]
                /\ owners' = [owners EXCEPT ![h] = 1]
                /\ last' = DoneStale("Function::try_from", d, <<>>, "Ok",
                                     Uses({d}, "owner"))
           ELSE /\ UNCHANGED <<kind, owners>>
                /\ last' = DoneStale("Function::try_from", d, <<>>, "Err",
                                     Uses({d}, "owner"))
    /\ UNCHANGED <<connVars, codecVars, errorVars, valueVars, descVars, panicked, bare, destroyed, refs>>

\* The caller obtains a structure handle from the foreign library itself
\* (RfcCreateStructure over the type description d, through crate::_unsafe).
RfcCreateStructure(d) ==
    /\ Holds(d, "TypeDesc")
    /\ HasFresh
    /\ LET h == FreshHandle
       IN /\ kind' = [kind EXCEPT ![h] = "Structure"]
          /\ bare' = bare \cup {h}
          /\ last' = DoneStale("RfcCreateStructure", d, <<>>, "Ok", Uses({d}, "owner"))
    /\ UNCHANGED <<connVars, codecVars, errorVars, valueVars, descVars, panicked, owners, destroyed, refs>>

\* #[derive(Clone)] on FunctionDescription: the clone holds the same handle.
Clone(h) ==
    /\ Holds(h, "FuncDesc")
    /\ owners[h] < MaxOwners
    /\ owners' = [owners EXCEPT ![h] = @ + 1]
    /\ last' = Done("clone", NULL, <<>>, "Ok")
    /\ UNCHANGED <<connVars, codecVars, errorVars, valueVars, descVars, panicked, kind, bare, destroyed, refs>>

\* impl From<wrapper> for its handle type (all four wrappers): ManuallyDrop,
\* the wrapper is gone without a destroy and the caller holds the bare handle.
IntoHandle(h) ==
    /\ \E k \in Kinds : Holds(h, k)
    /\ owners' = [owners EXCEPT ![h] = @ - 1]
    /\ bare' = bare \cup {h}
    /\ last' = Done("into_handle", NULL, <<>>, "Ok")
    /\ UNCHANGED <<connVars, codecVars, errorVars, valueVars, descVars, panicked, kind, destroyed, refs>>

\* impl From<handle type> for the wrapper (all four wrappers), on a bare
\* handle the caller holds: Self { handle }, an owning wrapper.
FromHandle(h) ==
    /\ ~panicked
    /\ h \in bare
    /\ owners[h] < MaxOwners
    /\ owners' = [owners EXCEPT ![h] = @ + 1]
    /\ last' = Done("from_handle", NULL, <<>>, "Ok")
    /\ UNCHANGED <<connVars, codecVars, errorVars, valueVars, descVars, panicked, kind, bare, destroyed, refs>>

\* What every Drop of a wrapper does with its handle h: one call of the
\* destroy entry point fn, which reported rc; `panic` is what the impl makes
\* of rc.
Release(h, fn, rc, panic) ==
    /\ owners' = [owners EXCEPT ![h] = @ - 1]
    /\ destroyed' = destroyed \cup {h}
    /\ panicked' = panic
    /\ last' = DoneStale("drop_wrapper", h, <<Call(fn, h, rc)>>,
                         IF panic THEN "Panic" ELSE "Ok", Uses({h}, "owner"))
    /\ UNCHANGED <<connVars, codecVars, errorVars, valueVars, descVars, kind, bare, refs>>

\* impl Drop for TypeDescription: whether it panics on the code rc of
\* RfcDestroyTypeDesc (error_info is never looked at).
drop_TypeDescription(rc) == FALSE

\* impl Drop for FunctionDescription: check_rc(..).expect(..)
drop_FunctionDescription(rc) == check_rc(rc) = "Err"

\* impl Drop for Function: panic! on Err
drop_Function(rc) == check_rc(rc) = "Err"

\* impl Drop for Structure: panic! on Err
drop_Structure(rc) == check_rc(rc) = "Err"

DropTypeDescription(h) ==
    /\ Holds(h, "TypeDesc")
    /\ \E rc \in RfcDestroy :
        Release(h, "RfcDestroyTypeDesc", rc, drop_TypeDescription(rc))

DropFunctionDescription(h) ==
    /\ Holds(h, "FuncDesc")
    /\ \E rc \in RfcDestroy :
        Release(h, "RfcDestroyFunctionDesc", rc, drop_FunctionDescription(rc))

DropFunction(h) ==
    /\ Holds(h, "Function")
    /\ \E rc \in RfcDestroy :
        Release(h, "RfcDestroyFunction", rc, drop_Function(rc))

DropStructure(h) ==
    /\ Holds(h, "Structure")
    /\ \E rc \in RfcDestroy :
        Release(h, "RfcDestroyStructure", rc, drop_Structure(rc))

\* TypeDescription::add_field(name, Type::Structure(&r)) on the owned type
\* description h (r = NULL: a field of a scalar type). The borrow r is of
\* another wrapper value (&mut self excludes self), and ends with the call:
\* the Type's lifetime is not tied to self. field_type.len() traverses r,
\* the running lengths are read from h, and the field, with r as its
\* typeDescHandle, is stored by RfcAddTypeField.
AddField(h, r) ==
    /\ Holds(h, "TypeDesc")
    /\ h \in CreatedHandles
    /\ r # h
    /\ r # NULL => Holds(r, "TypeDesc")
    /\ \E rc \in RfcAddTypeField :
        /\ refs' = IF check_rc(rc) = "Ok" /\ r # NULL
                   THEN [refs EXCEPT ![h] = @ \cup {r}]
                   ELSE refs
        /\ last' = DoneStale("add_field", h, <<>>, check_rc(rc),
                             Uses({h}, "owner")
                                 \cup (IF r = NULL THEN {}
                                       ELSE Uses({r}, "owner")
                                                \cup Uses(inlineable(r) \ {r}, "field")))
    /\ UNCHANGED <<connVars, codecVars, errorVars, valueVars, descVars, panicked, kind, owners, bare, destroyed>>

\* Reading the fields of the type description h and their types: get or
\* iteration (RfcGetFieldDescByName / ByIndex on h), then field_type() with
\* inlineable() or len() on each, which dereferences the field's
\* typeDescHandle and queries the nested description.
FieldTypes(h) ==
    /\ Holds(h, "TypeDesc")
    /\ last' = DoneStale("field_type", h, <<>>, "Ok",
                         Uses({h}, "owner") \cup Uses(inlineable(h) \ {h}, "field"))
    /\ UNCHANGED <<connVars, codecVars, errorVars, valueVars, descVars, panicked, kind, owners, bare, destroyed, refs>>

\* Connection::describe_type: on success the handle of the cached description
\* is wrapped (handle.into()) in an owning TypeDescription.
DescribeType(t) ==
    /\ CanCall(t)
    /\ owners[CachedTypeDesc] < MaxOwners
    /\ \E rc \in RfcGetTypeDesc(handle) :
        /\ IF check_rc(rc) = "Ok"
           THEN /\ kind' = [kind EXCEPT ![CachedTypeDesc] = "TypeDesc"]
                /\ owners' = [owners EXCEPT ![CachedTypeDesc] = @ + 1]
           ELSE UNCHANGED <<kind, owners>>
        /\ last' = Done("describe_type", handle,
                        <<Call("RfcGetTypeDesc", handle, rc)>>, check_rc(rc))
    /\ UNCHANGED <<connVars, codecVars, errorVars, valueVars, descVars, panicked, bare, destroyed, refs>>

\* Connection::describe_function: as describe_type, an owning
\* FunctionDescription.
DescribeFunction(t) ==
    /\ CanCall(t)
    /\ owners[CachedFuncDesc] < MaxOwners
    /\ \E rc \in RfcGetFunctionDesc(handle) :
        /\ IF check_rc(rc) = "Ok"
           THEN /\ kind' = [kind EXCEPT ![CachedFuncDesc] = "FuncDesc"]
                /\ owners' = [owners EXCEPT ![CachedFuncDesc] = @ + 1]
           ELSE UNCHANGED <<kind, owners>>
        /\ last' = Done("describe_function", handle,
                        <<Call("RfcGetFunctionDesc", handle, rc)>>, check_rc(rc))
    /\ UNCHANGED <<connVars, codecVars, errorVars, valueVars, descVars, panicked, bare, destroyed, refs>>

ConnNext ==
    \/ \E t \in Threads :
        \/ Open(t)
        \/ Close(t)
        \/ Cancel(t)
        \/ Reopen(t)
        \/ PingCall(t)
        \/ PingReturn(t)
        \/ Attributes(t)
        \/ DescribeType(t)
        \/ DescribeFunction(t)
        \/ DropConnection(t)
    \/ \E h \in CacheHandles :
        \/ DropTypeDescription(h)
        \/ DropFunctionDescription(h)

\* The Connection facade, with the descriptions it hands out.
ConnSpec == ConnInit /\ [][ConnNext]_vars

\* The owning wrappers over the handles the program creates itself.
Init == ConnInit

Next ==
    \/ NewTypeDescription
    \/ NewFunctionDescription
    \/ \E h \in CreatedHandles :
        \/ CreateFunction(h)
        \/ RfcCreateStructure(h)
        \/ Clone(h)
        \/ IntoHandle(h)
        \/ FromHandle(h)
        \/ DropTypeDescription(h)
        \/ DropFunctionDescription(h)
        \/ DropFunction(h)
        \/ DropStructure(h)
        \/ FieldTypes(h)
        \/ \E r \in CreatedHandles \cup {NULL} : AddField(h, r)

Spec == Init /\ [][Next]_vars

\* ------------------------------------------------ uc_str.rs, uc_string.rs
\* The characters of the texts converted: U+0000, an ASCII letter, and one
\* character for each longer UTF-8 form (2, 3 and 4 bytes).
Chars == {"NUL", "A", "U+00DF", "U+20AC", "U+1F600"}

\* The bytes of the UTF-8 form of a character.
Utf8Width(c) ==
    CASE c = "U+00DF" -> 2
      [] c = "U+20AC" -> 3
      [] c = "U+1F600" -> 4
      [] OTHER -> 1

\* The SAP_UC (UTF-16) units of a character: one unit, or a surrogate pair.
UcUnits(c) == IF c = "U+1F600" THEN <<"D83D", "DE00">> ELSE <<c>>

RECURSIVE Texts(_)
Texts(n) ==
    IF n = 0 THEN {<<>>}
    ELSE Texts(n - 1) \cup {Append(s, c) : s \in Texts(n - 1), c \in Chars}

\* str::len(): the bytes of the UTF-8 form.
RECURSIVE Utf8Len(_)
Utf8Len(s) == IF s = <<>> THEN 0 ELSE Utf8Width(Head(s)) + Utf8Len(Tail(s))

\* The SAP_UC units of the text, in number.
RECURSIVE UcLen(_)
UcLen(s) == IF s = <<>> THEN 0 ELSE Len(UcUnits(Head(s))) + UcLen(Tail(s))

\* The text as SAP_UC units, as the foreign conversion writes it.
RECURSIVE ToSapUc(_)
ToSapUc(s) == IF s = <<>> THEN <<>> ELSE UcUnits(Head(s)) \o ToSapUc(Tail(s))

\* The units hold whole characters only (no surrogate without its partner).
RECURSIVE WellFormed(_)
WellFormed(u) ==
    IF u = <<>> THEN TRUE
    ELSE IF Head(u) = "D83D"
    THEN Len(u) >= 2 /\ u[2] = "DE00" /\ WellFormed(Tail(Tail(u)))
    ELSE Head(u) # "DE00" /\ WellFormed(Tail(u))

\* The text that well-formed units hold, as the foreign conversion reads it.
RECURSIVE FromSapUc(_)
FromSapUc(u) ==
    IF u = <<>> THEN <<>>
    ELSE IF Head(u) = "D83D"
    THEN <<"U+1F600">> \o FromSapUc(Tail(Tail(u)))
    ELSE <<Head(u)>> \o FromSapUc(Tail(u))

\* n units of value x.
Fill(x, n) == [i \in 1..n |-> x]

\* What memory that was not written can hold: a NUL or something else.
Fills == {"NUL", "A"}

\* strnlenU16(uc.as_ptr(), uc.len()), strnlen: the units before the first NUL
\* unit, all of them when there is none.
strnlen(uc) ==
    IF \E i \in 1..Len(uc) : uc[i] = "NUL"
    THEN (CHOOSE i \in 1..Len(uc) :
            uc[i] = "NUL" /\ \A j \in 1..(i - 1) : uc[j] # "NUL") - 1
    ELSE Len(uc)

\* RfcSAPUCToUTF8 on the source units u with a buffer of buf bytes: the
\* code, the buffer length it leaves, and the text written. The result and
\* its terminator fit, or the required length is reported; or the codepage
\* conversion fails.
RfcSAPUCToUTF8(u, buf) ==
    (IF ~WellFormed(u) THEN {}
     ELSE IF buf >= Utf8Len(FromSapUc(u)) + 1
     THEN {[rc |-> RFC_OK, buffer_len |-> buf, utf8 |-> FromSapUc(u)]}
     ELSE {[rc |-> RFC_BUFFER_TOO_SMALL,
            buffer_len |-> Utf8Len(FromSapUc(u)) + 1, utf8 |-> <<>>]})
        \cup {[rc |-> RFC_CONVERSION_FAILURE, buffer_len |-> buf, utf8 |-> <<>>]}

\* RfcUTF8ToSAPUC on the UTF-8 form of text s with a buffer of buf units:
\* the code, the buffer length it leaves, the result length and the units
\* written (the text and its terminator).
RfcUTF8ToSAPUC(s, buf) ==
    (IF buf >= UcLen(s) + 1
     THEN {[rc |-> RFC_OK, buffer_len |-> buf, result_len |-> UcLen(s),
            sapuc |-> Append(ToSapUc(s), "NUL")]}
     ELSE {[rc |-> RFC_BUFFER_TOO_SMALL, buffer_len |-> UcLen(s) + 1,
            result_len |-> 0, sapuc |-> <<>>]})
        \cup {[rc |-> RFC_CONVERSION_FAILURE, buffer_len |-> buf,
               result_len |-> 0, sapuc |-> <<>>]}

\* sap_uc_to_string_with_len, one activation: the conversion c after the
\* foreign call returned r. RFC_OK ends it with the text written; every
\* other code is taken for "buffer too small" and the function calls itself
\* with r.buffer_len.
sap_uc_to_string_with_len(c, r) ==
    IF r.rc = RFC_OK
    THEN [c EXCEPT !.calls = @ + 1, !.rc = r.rc, !.state = "Ok", !.out = r.utf8]
    ELSE [c EXCEPT !.calls = @ + 1, !.rc = r.rc, !.buf = r.buffer_len]

\* string_to_sap_uc, one activation: RFC_OK ends it with a vector of
\* r.buffer_len units (what the call wrote, then capacity that was never
\* written, holding fill); RFC_BUFFER_TOO_SMALL makes it call itself with
\* r.buffer_len; every other code panics.
string_to_sap_uc(c, r, fill) ==
    IF r.rc = RFC_OK
    THEN [c EXCEPT !.calls = @ + 1, !.rc = r.rc, !.state = "Ok",
                   !.uc = r.sapuc \o Fill(fill, r.buffer_len - Len(r.sapuc))]
    ELSE IF r.rc = RFC_BUFFER_TOO_SMALL
    THEN [c EXCEPT !.calls = @ + 1, !.rc = r.rc, !.buf = r.buffer_len]
    ELSE [c EXCEPT !.calls = @ + 1, !.rc = r.rc, !.state = "Panic"]

\* UCStr::write of text s into the target uc, given what the one foreign
\* call returned: Ok with the target overwritten from its start, or Err with
\* the target as it was.
write(uc, r) ==
    IF r.rc = RFC_OK
    THEN [result |-> "Ok", len |-> r.result_len,
          uc |-> r.sapuc \o SubSeq(uc, Len(r.sapuc) + 1, Len(uc))]
    ELSE [result |-> "Err", len |-> 0, uc |-> uc]

\* A scratch buffer of a write_without_nul with no unit for the terminator.
tmp_buffer_no_extra(uc) ==
    Fill("NUL", Len(uc))

\* The scratch buffer of write_without_nul: vec![0; self.uc.len() + 1].
tmp_buffer(uc) ==
    Fill("NUL", Len(uc) + 1)

\* UCStr::write_without_nul of text s into the target uc, given what the
\* foreign call of the write into the scratch buffer returned: Err leaves
\* the target as it was, Ok copies the first uc.len() units of the scratch
\* buffer into it.
write_without_nul(uc, r) ==
    LET w == write(tmp_buffer(uc), r)
    IN  IF w.result = "Err" THEN [w EXCEPT !.uc = uc]
        ELSE [w EXCEPT !.uc = SubSeq(w.uc, 1, Len(uc))]

\* No conversion has been started.
CodecIdle == cv = Idle

\* UCStr::to_string_lossy on the slice uc, which holds an encoding of text s
\* made by via: sap_uc_to_string_with_len(&self.uc, self.uc.len()).
to_string_lossy(s, uc, via) ==
    /\ cv.state # "Running"
    /\ cv' = [op |-> "decode", via |-> via, text |-> s, uc |-> uc,
              buf |-> Len(uc), calls |-> 0, rc |-> "none", state |-> "Running",
              out |-> <<>>]
    /\ UNCHANGED <<connVars, wrapperVars, errorVars, valueVars, descVars, last, panicked>>

\* UCString::from(s): string_to_sap_uc(s, s.len()).
UCString_from(s) ==
    /\ CodecIdle
    /\ cv' = [op |-> "encode", via |-> "none", text |-> s, uc |-> <<>>,
              buf |-> Utf8Len(s), calls |-> 0, rc |-> "none",
              state |-> "Running", out |-> <<>>]
    /\ UNCHANGED <<connVars, wrapperVars, errorVars, valueVars, descVars, last, panicked>>

\* The running decode makes its next foreign call, on the units before the
\* first NUL of its source.
DecodeCall ==
    /\ cv.op = "decode"
    /\ cv.state = "Running"
    /\ cv.calls < MaxCalls
    /\ \E r \in RfcSAPUCToUTF8(SubSeq(cv.uc, 1, strnlen(cv.uc)), cv.buf) :
        cv' = sap_uc_to_string_with_len(cv, r)
    /\ UNCHANGED <<connVars, wrapperVars, errorVars, valueVars, descVars, last, panicked>>

\* The running encode makes its next foreign call.
EncodeCall ==
    /\ cv.op = "encode"
    /\ cv.state = "Running"
    /\ cv.calls < MaxCalls
    /\ \E r \in RfcUTF8ToSAPUC(cv.text, cv.buf), fill \in Fills :
        cv' = string_to_sap_uc(cv, r, fill)
    /\ UNCHANGED <<connVars, wrapperVars, errorVars, valueVars, descVars, last, panicked>>

\* UCStr::write(s) on a target of cap units that hold old.
Write(s, cap, old) ==
    /\ CodecIdle
    /\ \E r \in RfcUTF8ToSAPUC(s, cap) :
        LET w == write(Fill(old, cap), r)
        IN  cv' = [op |-> "write", via |-> "none", text |-> s, uc |-> w.uc,
                   buf |-> cap, calls |-> 1, rc |-> r.rc, state |-> w.result,
                   out |-> <<>>]
    /\ UNCHANGED <<connVars, wrapperVars, errorVars, valueVars, descVars, last, panicked>>

\* UCStr::write_without_nul(s) on a target of cap units that hold old.
WriteWithoutNul(s, cap, old) ==
    /\ CodecIdle
    /\ \E r \in RfcUTF8ToSAPUC(s, Len(tmp_buffer(Fill(old, cap)))) :
        LET w == write_without_nul(Fill(old, cap), r)
        IN  cv' = [op |-> "write_without_nul", via |-> "none", text |-> s,
                   uc |-> w.uc, buf |-> cap, calls |-> 1, rc |-> r.rc,
                   state |-> w.result, out |-> <<>>]
    /\ UNCHANGED <<connVars, wrapperVars, errorVars, valueVars, descVars, last, panicked>>

CodecNext ==
    \/ /\ CodecIdle
       /\ \E s \in Texts(MaxLen), pad \in 0..MaxPad :
            to_string_lossy(s, ToSapUc(s) \o Fill("NUL", pad), "slice")
    \/ /\ cv.op \in {"encode", "write", "write_without_nul"}
       /\ cv.state = "Ok"
       /\ to_string_lossy(cv.text, cv.uc, cv.op)
    \/ \E s \in Texts(MaxLen) : UCString_from(s)
    \/ DecodeCall
    \/ EncodeCall
    \/ \E s \in Texts(MaxLen), cap \in 0..MaxCap, old \in Fills :
        \/ Write(s, cap, old)
        \/ WriteWithoutNul(s, cap, old)

\* The unicode codec.
CodecSpec == ConnInit /\ [][CodecNext]_vars

\* ------------------------------------------------------- types/error.rs
\* The nine text fields of RFC_ERROR_INFO, under their names there.
ErrorFields ==
    {"key", "message", "abapMsgClass", "abapMsgType", "abapMsgNumber",
     "abapMsgV1", "abapMsgV2", "abapMsgV3", "abapMsgV4"}

\* The texts the foreign library puts into a field.
ErrorTexts == {<<>>, <<"A">>}

\* A field of the foreign structure: the units of the text, NUL to the end.
FieldOf(t) == ToSapUc(t) \o Fill("NUL", FieldCap - UcLen(t))

\* The foreign error structures received.
ErrorInfos ==
    [code : {RFC_OK, RFC_COMMUNICATION_FAILURE},
     group : {"OK", "COMMUNICATION_FAILURE"},
     text : [ErrorFields -> {FieldOf(t) : t \in ErrorTexts}]]

\* sap_enum!: From<RFC_RC> for ReturnCode and back.
ReturnCode_from(rc) ==
    CASE rc = RFC_OK -> "Ok"
      [] rc = RFC_NOT_FOUND -> "NotFound"
      [] rc = RFC_INVALID_PARAMETER -> "InvalidParameter"
      [] rc = RFC_MEMORY_INSUFFICIENT -> "MemoryInsuffcient"
      [] OTHER -> "CommunicationFailure"

RFC_RC_from(code) ==
    CASE code = "Ok" -> RFC_OK
      [] code = "NotFound" -> RFC_NOT_FOUND
      [] code = "InvalidParameter" -> RFC_INVALID_PARAMETER
      [] code = "MemoryInsuffcient" -> RFC_MEMORY_INSUFFICIENT
      [] OTHER -> RFC_COMMUNICATION_FAILURE

\* sap_enum!: From<RFC_ERROR_GROUP> for ErrorGroup and back.
ErrorGroup_from(g) ==
    IF g = "OK" THEN "Ok" ELSE "CommunicationFailure"

RFC_ERROR_GROUP_from(group) ==
    IF group = "Ok" THEN "OK" ELSE "COMMUNICATION_FAILURE"

\* UCStr::from_slice(field).to_string_lossy(), when its conversion succeeds:
\* the text of the units before the first NUL.
FieldText(uc) == FromSapUc(SubSeq(uc, 1, strnlen(uc)))

\* From<&RFC_ERROR_INFO> for RfcError.
RfcError_from(value) ==
    [code |-> ReturnCode_from(value.code),
     group |-> ErrorGroup_from(value.group),
     key |-> FieldText(value.text["key"]),
     message |-> FieldText(value.text["key"]),
     abap_msg_class |-> FieldText(value.text["abapMsgClass"]),
     abap_msg_type |-> FieldText(value.text["abapMsgType"]),
     abap_msg_number |-> FieldText(value.text["abapMsgNumber"]),
     abap_msg_v1 |-> FieldText(value.text["abapMsgV1"]),
     abap_msg_v2 |-> FieldText(value.text["abapMsgV2"]),
     abap_msg_v3 |-> FieldText(value.text["abapMsgV3"]),
     abap_msg_v4 |-> FieldText(value.text["abapMsgV4"])]

\* The field of the RfcError that TryFrom writes into field f.
RfcErrorField(value, f) ==
    CASE f = "key" -> value.key
      [] f = "message" -> value.message
      [] f = "abapMsgClass" -> value.abap_msg_class
      [] f = "abapMsgType" -> value.abap_msg_type
      [] f = "abapMsgNumber" -> value.abap_msg_number
      [] f = "abapMsgV1" -> value.abap_msg_v1
      [] f = "abapMsgV2" -> value.abap_msg_v2
      [] f = "abapMsgV3" -> value.abap_msg_v3
      [] f = "abapMsgV4" -> value.abap_msg_v4

\* What the foreign conversion answers when the codepage conversion works.
Converted(s, buf) ==
    CHOOSE r \in RfcUTF8ToSAPUC(s, buf) : r.rc # RFC_CONVERSION_FAILURE

\* TryFrom<&RfcError> for RFC_ERROR_INFO: every field is written into the
\* zeroed field of a default structure; the first write that fails ends the
\* conversion with its error. failed: the fields whose codepage conversion
\* the foreign library fails.
RFC_ERROR_INFO_try_from(value, failed) ==
    LET w(f) == write(Fill("NUL", FieldCap),
                      IF f \in failed
                      THEN [rc |-> RFC_CONVERSION_FAILURE, buffer_len |-> FieldCap,
                            result_len |-> 0, sapuc |-> <<>>]
                      ELSE Converted(RfcErrorField(value, f), FieldCap))
    IN  IF \E f \in ErrorFields : w(f).result = "Err"
        THEN [result |-> "Err"]
        ELSE [result |-> "Ok",
              info |-> [code |-> RFC_RC_from(value.code),
                        group |-> RFC_ERROR_GROUP_from(value.group),
                        text |-> [f \in ErrorFields |-> w(f).uc]]]

\* The foreign library fills an error structure.
ReceiveError(e) ==
    /\ er.stage = "none"
    /\ er' = [stage |-> "info", info |-> e]
    /\ UNCHANGED <<connVars, wrapperVars, codecVars, valueVars, descVars, last, panicked>>

\* error_info.into(): the RfcError of the structure received.
IntoRfcError ==
    /\ er.stage = "info"
    /\ er' = [stage |-> "error", info |-> er.info, error |-> RfcError_from(er.info)]
    /\ UNCHANGED <<connVars, wrapperVars, codecVars, valueVars, descVars, last, panicked>>

\* RFC_ERROR_INFO::try_from(&error): the structure of the RfcError.
TryIntoErrorInfo(failed) ==
    /\ er.stage = "error"
    /\ er' = [stage |-> "back", info |-> er.info, error |-> er.error,
              back |-> RFC_ERROR_INFO_try_from(er.error, failed)]
    /\ UNCHANGED <<connVars, wrapperVars, codecVars, valueVars, descVars, last, panicked>>

ErrorNext ==
    \/ \E e \in ErrorInfos : ReceiveError(e)
    \/ IntoRfcError
    \/ \E f \in ErrorFields : TryIntoErrorInfo({f})
    \/ TryIntoErrorInfo({})

\* The error record.
ErrorSpec == ConnInit /\ [][ErrorNext]_vars

\* ------------------------ enums.rs, types/type_description.rs (contents)

\* An unsigned machine word (u32) holds the values 0 .. Word - 1.
Word == 2 ^ WordBits

\* Option<T>
None == [some |-> FALSE]

Some(x) == [some |-> TRUE, val |-> x]

\* enum Type<'a>: the variant, its length and decimals parameters and its
\* nested type description (absent: zero, NULL).
Char(n) == [v |-> "Char", len |-> n, dec |-> 0, td |-> NULL]

BCD(n, d) == [v |-> "BCD", len |-> n, dec |-> d, td |-> NULL]

Plain(v) == [v |-> v, len |-> 0, dec |-> 0, td |-> NULL]

Structure(t) == [v |-> "Structure", len |-> 0, dec |-> 0, td |-> t]

Table(t) == [v |-> "Table", len |-> 0, dec |-> 0, td |-> t]

\* The pointer-class variants.
PointerTypes == {"String", "XString", "ABAPObject", "Box", "GenericBox"}

\* impl From<Type> for RFCTYPE
RFCTYPE_from(ty) ==
    CASE ty.v = "Char" -> "RFCTYPE_CHAR"
      [] ty.v = "BCD" -> "RFCTYPE_BCD"
      [] ty.v = "Float" -> "RFCTYPE_FLOAT"
      [] ty.v = "Int" -> "RFCTYPE_INT"
      [] ty.v = "Null" -> "RFCTYPE_NULL"
      [] ty.v = "String" -> "RFCTYPE_STRING"
      [] ty.v = "XString" -> "RFCTYPE_XSTRING"
      [] ty.v = "ABAPObject" -> "RFCTYPE_ABAPOBJECT"
      [] ty.v = "Box" -> "RFCTYPE_BOX"
      [] ty.v = "GenericBox" -> "RFCTYPE_GENERIC_BOX"
      [] ty.v = "Structure" -> "RFCTYPE_STRUCTURE"
      [] ty.v = "Table" -> "RFCTYPE_TABLE"

\* Type::from_rfc_type
from_rfc_type(rfc_type, length, decimals, type_description) ==
    CASE rfc_type = "RFCTYPE_CHAR" -> Char(length)
      [] rfc_type = "RFCTYPE_BCD" -> BCD(length, decimals)
      [] rfc_type = "RFCTYPE_FLOAT" -> Plain("Float")
      [] rfc_type = "RFCTYPE_INT" -> Plain("Int")
      [] rfc_type = "RFCTYPE_NULL" -> Plain("Null")
      [] rfc_type = "RFCTYPE_STRING" -> Plain("String")
      [] rfc_type = "RFCTYPE_XSTRING" -> Plain("XString")
      [] rfc_type = "RFCTYPE_ABAPOBJECT" -> Plain("ABAPObject")
      [] rfc_type = "RFCTYPE_BOX" -> Plain("Box")
      [] rfc_type = "RFCTYPE_GENERIC_BOX" -> Plain("GenericBox")
      [] rfc_type = "RFCTYPE_STRUCTURE" -> Structure(type_description)
      [] rfc_type = "RFCTYPE_TABLE" -> Table(type_description)

\* Type::decimals
Type_decimals(ty) == IF ty.v = "BCD" THEN ty.dec ELSE 0

\* Type::type_description, the handle of Some(t) or NULL for None.
Type_type_description(ty) == IF ty.v \in {"Structure", "Table"} THEN ty.td ELSE NULL

\* FieldDescription::length reading the unicode length instead.
length_uc(f) == f.ucLength

\* FieldDescription::length
length(f) == f.nucLength

\* FieldDescription::field_type
field_type(f) == from_rfc_type(f.type_, length(f), f.decimals, f.typeDescHandle)

\* FieldDescription::name
FieldDescription_name(f) == FieldText(f.name)

\* TypeDesc::len, the field count RfcGetFieldCount reports.
TypeDesc_len(h) == Len(descs[h].fields)

\* TypeDesc::get_by_index; RfcGetFieldDescByIndex reports the field at the
\* index.
get_by_index(h, index) ==
    IF index >= TypeDesc_len(h) THEN None ELSE Some(descs[h].fields[index + 1])

\* TypeDesc::nuc_length
nuc_length(h) == descs[h].nuc

\* TypeDesc::uc_length
uc_length(h) == descs[h].uc

\* Type::inlineable and TypeDesc::inlineable call each other.  The call
\* returns "T" or "F", or does not return ("D") when the descent through
\* nested descriptions is deeper than depth: a description that reaches
\* itself.
RECURSIVE Type_inlineable(_, _)
RECURSIVE TypeDesc_inlineable_from(_, _, _)

\* TypeDesc::inlineable, the loop over the fields from the index i on.
TypeDesc_inlineable_from(h, i, depth) ==
    IF depth = 0 THEN "D"
    ELSE LET field == get_by_index(h, i)
         IN IF ~field.some THEN "T"
            ELSE LET r == Type_inlineable(field_type(field.val), depth)
                 IN IF r = "T" THEN TypeDesc_inlineable_from(h, i + 1, depth) ELSE r

\* Type::inlineable
Type_inlineable(ty, depth) ==
    CASE ty.v \in PointerTypes -> "F"
      [] ty.v \in {"Structure", "Table"} -> TypeDesc_inlineable_from(ty.td, 0, depth - 1)
      [] OTHER -> "T"

\* The depth no descent through distinct descriptions exceeds.
MaxDepth == Cardinality(Handles)

\* TypeDesc::inlineable
TypeDesc_inlineable(h) == TypeDesc_inlineable_from(h, 0, MaxDepth)

\* Type::len for Char, BCD and Num: (*len, *len * 2).  The product of two
\* words that does not fit a word panics or wraps, as the build decides.
char_len(n) ==
    [nuc |-> n, uc |-> (n * 2) % Word, st |-> IF n * 2 >= Word THEN "Overflow" ELSE "Ok"]

\* Type::len: the pair of lengths, and whether the computation overflowed
\* (st "Overflow") or did not return (st "Diverges").
Type_len(ty) ==
    CASE ty.v \in {"Structure", "Table"} ->
            LET i == TypeDesc_inlineable(ty.td)
            IN CASE i = "T" -> [nuc |-> nuc_length(ty.td), uc |-> uc_length(ty.td), st |-> "Ok"]
                 [] i = "F" -> [nuc |-> 8, uc |-> 8, st |-> "Ok"]
                 [] OTHER -> [nuc |-> 0, uc |-> 0, st |-> "Diverges"]
      [] ty.v = "Float" -> [nuc |-> 8, uc |-> 8, st |-> "Ok"]
      [] ty.v = "Int" -> [nuc |-> 4, uc |-> 4, st |-> "Ok"]
      [] ty.v \in PointerTypes -> [nuc |-> 8, uc |-> 8, st |-> "Ok"]
      [] ty.v \in {"Char", "BCD"} -> char_len(ty.len)
      [] ty.v = "Null" -> [nuc |-> 0, uc |-> 0, st |-> "Ok"]

\* ----------------------- types/type_description.rs (builder and lookups)

\* The names the caller passes: a one-unit name, a name of one character
\* and two units, and a name one unit longer than RFC_ABAP_NAME holds.
Names == {<<"A">>, <<"U+1F600">>, Fill("A", NameCap + 1)}

\* RFC_ABAP_NAME::default(): the zeroed name buffer, the terminator included.
RFC_ABAP_NAME == Fill("NUL", NameCap + 1)

\* The name a zero-terminated buffer holds, as the foreign library reads it.
CStr(uc) == SubSeq(uc, 1, strnlen(uc))

\* UCString::from(name).as_ptr(): the units of the name and the terminator.
UCString_of(name) == Converted(name, UcLen(name) + 1).sapuc

\* Whether an entry of the sequence carries the name.
HasName(entries, uc) == \E i \in 1..Len(entries) : CStr(entries[i].name) = CStr(uc)

\* The entry of the sequence that carries the name.
Named(entries, uc) ==
    entries[CHOOSE i \in 1..Len(entries) : CStr(entries[i].name) = CStr(uc)]

\* RfcAddTypeField, RfcAddParameter, RfcAddException on a description with
\* the given entries: a name that is already there is rejected, any other is
\* appended unless the library fails.
RfcAdd(entries, uc) ==
    IF HasName(entries, uc) THEN {RFC_INVALID_PARAMETER} ELSE RfcAddTypeField

\* RfcSetTypeLength: the lengths are set, or the library fails.
RfcSetTypeLength == {RFC_OK, RFC_MEMORY_INSUFFICIENT}

\* RfcGetFieldDescByName: the field of that name, or RFC_NOT_FOUND for a
\* name no field carries and for a name longer than RFC_ABAP_NAME.
RfcGetFieldDescByName(h, uc) ==
    IF strnlen(uc) <= NameCap /\ HasName(descs[h].fields, uc)
    THEN [rc |-> RFC_OK, desc |-> Named(descs[h].fields, uc)]
    ELSE [rc |-> RFC_NOT_FOUND]

\* (x as f64 / y as f64).ceil() as u32: the cast of NaN (0 / 0) is 0, the
\* cast of +inf (x / 0) is u32::MAX.
ceil_quotient(x, y) ==
    IF y = 0 THEN (IF x = 0 THEN 0 ELSE Word - 1) ELSE (x + y - 1) \div y

\* TypeDescription::add_field on the description h: the results the call
\* can have, each with the content of the description after it.  l is what
\* field_type.len() returned.
add_field_from(h, name, ty, l) ==
    LET d == descs[h]
        nuc_offset == ceil_quotient(nuc_length(h), l.nuc)
        uc_offset == ceil_quotient(uc_length(h), l.uc)
        w == write(RFC_ABAP_NAME, Converted(name, Len(RFC_ABAP_NAME)))
        field_desc == [name |-> w.uc,
                       nucLength |-> l.nuc, nucOffset |-> nuc_offset,
                       ucLength |-> l.uc, ucOffset |-> uc_offset,
                       decimals |-> Type_decimals(ty),
                       typeDescHandle |-> Type_type_description(ty),
                       type_ |-> RFCTYPE_from(ty)]
        inserted == [d EXCEPT !.fields = Append(@, field_desc)]
    IN IF w.result = "Err"
       THEN {[result |-> "Err", desc |-> d]}
       ELSE {[result |-> "Err", desc |-> d] :
                rc \in RfcAdd(d.fields, w.uc) \ {RFC_OK}}
            \cup {[result |-> check_rc(rc),
                   desc |-> IF check_rc(rc) = "Ok"
                            THEN [inserted EXCEPT !.nuc = nuc_offset, !.uc = uc_offset]
                            ELSE inserted] :
                    rc \in {c \in RfcSetTypeLength : RFC_OK \in RfcAdd(d.fields, w.uc)}}

\* The results of a call that computes field_type.len() first and got l: a
\* length computation that does not return, one that panics on the overflow
\* (overflow checks on) or goes on with the wrapped value (checks off), the
\* results of the rest of the call being rest.
WithLen(l, d, rest) ==
    CASE l.st = "Diverges" -> {[result |-> "Diverges", desc |-> d]}
      [] l.st = "Overflow" -> {[result |-> "Panic", desc |-> d]} \cup rest
      [] OTHER -> rest

\* The entries the descriptions hold in all.
Entries ==
    LET count[n \in 0..MaxHandles] ==
            IF n = 0 THEN 0
            ELSE count[n - 1] + Len(descs[n].fields)
                     + Len(funcs[n].params) + Len(funcs[n].excs)
    IN count[MaxHandles]

\* The types a field is added with.
AddableTypes ==
    {Char(1), BCD(2, 1), Plain("String")}
        \cup {Structure(g) : g \in {x \in CreatedHandles : Holds(x, "TypeDesc")}}

\* The call as ret records it.
Ret(op, h, name, dir, ty, pre, result, val) ==
    [op |-> op, h |-> h, name |-> name, dir |-> dir, ty |-> ty,
     pre |-> pre, result |-> result, val |-> val]

\* TypeDescription::add_field(name, field_type) on the owned description h.
\* The borrow rules keep the description itself out of field_type.
add_field(h, name, ty) ==
    /\ Holds(h, "TypeDesc")
    /\ h \in CreatedHandles
    /\ Entries < MaxEntries
    /\ ty.td # h
    /\ LET l == Type_len(ty)
       IN \E o \in WithLen(l, descs[h], add_field_from(h, name, ty, l)) :
            /\ descs' = [descs EXCEPT ![h] = o.desc]
            /\ added' = IF o.result = "Ok"
                        THEN added \cup {[h |-> h, name |-> name, dir |-> "none", ty |-> ty]}
                        ELSE added
            /\ refs' = IF o.desc # descs[h] /\ ty.td # NULL
                       THEN [refs EXCEPT ![h] = @ \cup {ty.td}]
                       ELSE refs
            /\ panicked' = (o.result \in {"Panic", "Diverges"})
            /\ ret' = Ret("add_field", h, name, "none", ty, descs[h], o.result, None)
    /\ UNCHANGED <<connVars, codecVars, errorVars, valueVars, funcs, last,
                   kind, owners, bare, destroyed>>

\* The match of TypeDesc::get with InvalidParameter as its absent code.
get_match_invalid_parameter(rc) ==
    CASE check_rc(rc) = "Ok" -> "Some"
      [] ReturnCode_from(rc) = "InvalidParameter" -> "None"
      [] OTHER -> "Panic"

\* The match of TypeDesc::get on the result of the foreign lookup: present,
\* absent for ReturnCode::NotFound, a panic for every other code.
get_match(rc) ==
    CASE check_rc(rc) = "Ok" -> "Some"
      [] ReturnCode_from(rc) = "NotFound" -> "None"
      [] OTHER -> "Panic"

\* TypeDesc::get(field_name) on the description h.
get(h, field_name) ==
    /\ Holds(h, "TypeDesc")
    /\ h \in CreatedHandles
    /\ LET r == RfcGetFieldDescByName(h, UCString_of(field_name))
           result == get_match(r.rc)
       IN /\ ret' = Ret("get", h, field_name, "none", Plain("Null"), descs[h], result,
                        IF result = "Some" THEN Some(r.desc) ELSE None)
          /\ panicked' = (result = "Panic")
    /\ UNCHANGED <<connVars, wrapperVars, codecVars, errorVars, valueVars, descs, funcs, added, last>>

\* TypeDesc::inlineable on the description h.
Inlineable(h) ==
    /\ Holds(h, "TypeDesc")
    /\ h \in CreatedHandles
    /\ LET r == TypeDesc_inlineable(h)
       IN /\ ret' = Ret("inlineable", h, <<>>, "none", Plain("Null"), descs[h], r, None)
          /\ panicked' = (r = "D")
    /\ UNCHANGED <<connVars, wrapperVars, codecVars, errorVars, valueVars, descs, funcs, added, last>>

\* The lengths Char is asked for: the least, the greatest, and those around
\* the half of the word.
Lens == {0, 1, Word \div 2 - 1, Word \div 2, Word - 1}

\* The types Type::len is asked for.
LenTypes ==
    {Char(n) : n \in Lens}
        \cup {Plain(v) : v \in PointerTypes \cup {"Float"}}
        \cup {Structure(g) : g \in {x \in CreatedHandles : Holds(x, "TypeDesc")}}
        \cup {Table(g) : g \in {x \in CreatedHandles : Holds(x, "TypeDesc")}}

\* Type::len on the type ty.
TypeLen(ty) ==
    /\ ~panicked
    /\ LET l == Type_len(ty)
       IN \E result \in (IF l.st = "Overflow" THEN {"Panic", "Ok"} ELSE {l.st}) :
            /\ ret' = Ret("Type::len", NULL, <<>>, "none", ty, None, result,
                          IF result = "Ok" THEN Some(<<l.nuc, l.uc>>) ELSE None)
            /\ panicked' = (result # "Ok")
    /\ UNCHANGED <<connVars, wrapperVars, codecVars, errorVars, valueVars, descs, funcs, added, last>>

\* --------------- function_description.rs, types/parameter_description.rs

\* sap_enum!: From<ParameterDirection> for RFC_DIRECTION and back.
RFC_DIRECTION_from(direction) ==
    IF direction = "Import" THEN "RFC_IMPORT" ELSE "RFC_EXPORT"

ParameterDirection_from(d) ==
    IF d = "RFC_IMPORT" THEN "Import" ELSE "Export"

\* The directions a parameter is added with.
Directions == {"Import", "Export"}

\* The types a parameter is added with.
ParameterTypes ==
    {BCD(2, 1)} \cup {Table(g) : g \in {x \in CreatedHandles : Holds(x, "TypeDesc")}}

\* ParameterDescription::new.  l is what parameter_type.len() returned.
ParameterDescription_new(name, direction, ty, l) ==
    LET w == write(RFC_ABAP_NAME, Converted(name, Len(RFC_ABAP_NAME)))
    IN [result |-> w.result,
        desc |-> [name |-> w.uc,
                  direction |-> RFC_DIRECTION_from(direction),
                  nucLength |-> l.nuc, ucLength |-> l.uc,
                  decimals |-> Type_decimals(ty),
                  typeDescHandle |-> Type_type_description(ty),
                  type_ |-> RFCTYPE_from(ty)]]

\* ParameterDescription::name
ParameterDescription_name(p) == FieldText(p.name)

\* ParameterDescription::len
ParameterDescription_len(p) == p.nucLength

\* ParameterDescription::parameter_type
parameter_type(p) ==
    from_rfc_type(p.type_, ParameterDescription_len(p), p.decimals, p.typeDescHandle)

\* ParameterDescription::direction
direction(p) == ParameterDirection_from(p.direction)

\* RfcGetParameterDescByName: the parameter of that name, or
\* RFC_INVALID_PARAMETER for a name no parameter carries and for a name
\* longer than RFC_ABAP_NAME.
RfcGetParameterDescByName(h, uc) ==
    IF strnlen(uc) <= NameCap /\ HasName(funcs[h].params, uc)
    THEN [rc |-> RFC_OK, desc |-> Named(funcs[h].params, uc)]
    ELSE [rc |-> RFC_INVALID_PARAMETER]

\* RfcGetExceptionDescByName: as RfcGetParameterDescByName, on the exceptions.
RfcGetExceptionDescByName(h, uc) ==
    IF strnlen(uc) <= NameCap /\ HasName(funcs[h].excs, uc)
    THEN [rc |-> RFC_OK, desc |-> Named(funcs[h].excs, uc)]
    ELSE [rc |-> RFC_INVALID_PARAMETER]

\* The match of FuncDesc::get_parameter_by_name and get_exception_by_name on
\* the result of the foreign lookup: present, absent for
\* ReturnCode::InvalidParameter, a panic for every other code.
by_name_match(rc) ==
    CASE check_rc(rc) = "Ok" -> "Some"
      [] ReturnCode_from(rc) = "InvalidParameter" -> "None"
      [] OTHER -> "Panic"

\* ParameterDescription::new(name, direction, parameter_type), then
\* FunctionDescription::add_parameter(&param) on the owned description h when
\* the parameter description was made.
add_parameter(h, name, dir, ty) ==
    /\ Holds(h, "FuncDesc")
    /\ h \in CreatedHandles
    /\ Entries < MaxEntries
    /\ LET l == Type_len(ty)
           made == [result |-> "Ok", desc |-> ParameterDescription_new(name, dir, ty, l)]
       IN \E n \in WithLen(l, None, {made}) :
            IF n.result = "Ok" /\ n.desc.result = "Ok"
            THEN \E rc \in RfcAdd(funcs[h].params, n.desc.desc.name) :
                    /\ funcs' = IF check_rc(rc) = "Ok"
                                THEN [funcs EXCEPT ![h].params = Append(@, n.desc.desc)]
                                ELSE funcs
                    /\ added' = IF check_rc(rc) = "Ok"
                                THEN added \cup {[h |-> h, name |-> name, dir |-> dir, ty |-> ty]}
                                ELSE added
                    /\ panicked' = panicked
                    /\ ret' = Ret("add_parameter", h, name, dir, ty, funcs[h],
                                  check_rc(rc), None)
            ELSE /\ UNCHANGED <<funcs, added>>
                 /\ panicked' = (n.result # "Ok")
                 /\ ret' = Ret("ParameterDescription::new", h, name, dir, ty, funcs[h],
                               IF n.result = "Ok" THEN "Err" ELSE n.result, None)
    /\ UNCHANGED <<connVars, wrapperVars, codecVars, errorVars, valueVars, descs, last>>

\* FunctionDescription::add_exception(exception) on the owned description h,
\* for an exception description that carries the key.
add_exception(h, key) ==
    /\ Holds(h, "FuncDesc")
    /\ h \in CreatedHandles
    /\ Entries < MaxEntries
    /\ LET exception_desc == [name |-> UCString_of(key) \o Fill("NUL", NameCap - UcLen(key)),
                              message |-> <<"NUL">>]
       IN \E rc \in RfcAdd(funcs[h].excs, exception_desc.name) :
            /\ funcs' = IF check_rc(rc) = "Ok"
                        THEN [funcs EXCEPT ![h].excs = Append(@, exception_desc)]
                        ELSE funcs
            /\ ret' = Ret("add_exception", h, key, "none", Plain("Null"), funcs[h],
                          check_rc(rc), None)
    /\ UNCHANGED <<connVars, wrapperVars, codecVars, errorVars, valueVars, descs, added, last, panicked>>

\* FuncDesc::get_parameter_by_name(name) on the description h.
get_parameter_by_name(h, name) ==
    /\ Holds(h, "FuncDesc")
    /\ h \in CreatedHandles
    /\ LET r == RfcGetParameterDescByName(h, UCString_of(name))
           result == by_name_match(r.rc)
       IN /\ ret' = Ret("get_parameter_by_name", h, name, "none", Plain("Null"), funcs[h],
                        result, IF result = "Some" THEN Some(r.desc) ELSE None)
          /\ panicked' = (result = "Panic")
    /\ UNCHANGED <<connVars, wrapperVars, codecVars, errorVars, valueVars, descs, funcs, added, last>>

\* FuncDesc::get_exception_by_name(name) on the description h.
get_exception_by_name(h, name) ==
    /\ Holds(h, "FuncDesc")
    /\ h \in CreatedHandles
    /\ LET r == RfcGetExceptionDescByName(h, UCString_of(name))
           result == by_name_match(r.rc)
       IN /\ ret' = Ret("get_exception_by_name", h, name, "none", Plain("Null"), funcs[h],
                        result, IF result = "Some" THEN Some(r.desc) ELSE None)
          /\ panicked' = (result = "Panic")
    /\ UNCHANGED <<connVars, wrapperVars, codecVars, errorVars, valueVars, descs, funcs, added, last>>

\* --------------------- the iterators (TypeIter, ParameterIterator,
\* --------------------- ExceptionIterator)

\* FuncDesc::parameter_count, the count RfcGetParameterCount reports.
parameter_count(h) == Len(funcs[h].params)

\* FuncDesc::get_parameter_by_index; RfcGetParameterDescByIndex reports the
\* parameter at the index.
get_parameter_by_index(h, idx) ==
    IF idx >= parameter_count(h) THEN None ELSE Some(funcs[h].params[idx + 1])

\* RFC_EXCEPTION_DESC::default()
RFC_EXCEPTION_DESC == [name |-> RFC_ABAP_NAME, message |-> <<"NUL">>]

\* RfcGetExceptionDescByIndex: the exception at the index; an index out of
\* range is answered with RFC_INVALID_PARAMETER when the library reports it,
\* and with RFC_OK and an untouched description when it does not.
RfcGetExceptionDescByIndex(h, idx, reports) ==
    CASE idx < Len(funcs[h].excs) -> [rc |-> RFC_OK, desc |-> funcs[h].excs[idx + 1]]
      [] reports -> [rc |-> RFC_INVALID_PARAMETER, desc |-> RFC_EXCEPTION_DESC]
      [] OTHER -> [rc |-> RFC_OK, desc |-> RFC_EXCEPTION_DESC]

\* FuncDesc::get_exception_by_index
get_exception_by_index(h, idx, reports) ==
    LET r == RfcGetExceptionDescByIndex(h, idx, reports)
    IN IF by_name_match(r.rc) = "Some" THEN Some(r.desc) ELSE None

\* An iterator that was asked calls times: what it yielded, and whether its
\* last answer was None.
Yield(item, rest) == [items |-> <<item>> \o rest.items, ended |-> rest.ended]

\* TypeIter::next, called until it returns None, calls times at most.
RECURSIVE TypeIter_next(_, _, _)
TypeIter_next(h, index, calls) ==
    IF calls = 0 THEN [items |-> <<>>, ended |-> FALSE]
    ELSE LET result == get_by_index(h, index)
         IN IF ~result.some THEN [items |-> <<>>, ended |-> TRUE]
            ELSE Yield(result.val, TypeIter_next(h, index + 1, calls - 1))

\* ExceptionIterator::next, called until it returns None, calls times at
\* most.
RECURSIVE ExceptionIterator_next(_, _, _, _)
ExceptionIterator_next(h, index, reports, calls) ==
    IF calls = 0 THEN [items |-> <<>>, ended |-> FALSE]
    ELSE LET result == get_exception_by_index(h, index, reports)
         IN IF ~result.some THEN [items |-> <<>>, ended |-> TRUE]
            ELSE Yield(result.val, ExceptionIterator_next(h, index + 1, reports, calls - 1))

\* ParameterIterator::next that returns None at a parameter of another
\* direction.
ParameterIterator_next_stop(h, index, dir) ==
    LET result == get_parameter_by_index(h, index)
    IN IF result.some /\ direction(result.val) = dir
       THEN [item |-> result, index |-> index + 1]
       ELSE [item |-> None, index |-> index + 1]

\* ParameterIterator::next: the item it returns and the index it leaves.
RECURSIVE ParameterIterator_next(_, _, _)
ParameterIterator_next(h, index, dir) ==
    LET result == get_parameter_by_index(h, index)
    IN CASE ~result.some -> [item |-> None, index |-> index + 1]
         [] direction(result.val) = dir -> [item |-> result, index |-> index + 1]
         [] OTHER -> ParameterIterator_next(h, index + 1, dir)

\* ParameterIterator::next, called until it returns None, calls times at
\* most.
RECURSIVE ParameterIterator_all(_, _, _, _)
ParameterIterator_all(h, index, dir, calls) ==
    IF calls = 0 THEN [items |-> <<>>, ended |-> FALSE]
    ELSE LET n == ParameterIterator_next(h, index, dir)
         IN IF ~n.item.some THEN [items |-> <<>>, ended |-> TRUE]
            ELSE Yield(n.item.val, ParameterIterator_all(h, n.index, dir, calls - 1))

\* The iteration as ret records it.
Iterated(op, h, dir, pre, it) ==
    Ret(op, h, <<>>, dir, Plain("Null"), pre,
        IF it.ended THEN "Ended" ELSE "Endless", Some(it.items))

\* for field in &type_desc: the iteration over the fields of h.
IterFields(h) ==
    /\ Holds(h, "TypeDesc")
    /\ h \in CreatedHandles
    /\ ret' = Iterated("fields", h, "none", descs[h], TypeIter_next(h, 0, MaxNext))
    /\ UNCHANGED <<connVars, wrapperVars, codecVars, errorVars, valueVars, descs, funcs, added,
                   last, panicked>>

\* desc.parameters(direction): the iteration over the parameters of h of
\* the direction.
IterParameters(h, dir) ==
    /\ Holds(h, "FuncDesc")
    /\ h \in CreatedHandles
    /\ ret' = Iterated("parameters", h, dir, funcs[h],
                       ParameterIterator_all(h, 0, dir, MaxNext))
    /\ UNCHANGED <<connVars, wrapperVars, codecVars, errorVars, valueVars, descs, funcs, added,
                   last, panicked>>

\* desc.exceptions(): the iteration over the exceptions of h.
IterExceptions(h) ==
    /\ Holds(h, "FuncDesc")
    /\ h \in CreatedHandles
    /\ \E reports \in BOOLEAN :
        ret' = Iterated("exceptions", h, "none", funcs[h],
                        ExceptionIterator_next(h, 0, reports, MaxNext))
    /\ UNCHANGED <<connVars, wrapperVars, codecVars, errorVars, valueVars, descs, funcs, added,
                   last, panicked>>

\* The steps of a program that builds type and function descriptions and
\* reads them back.
DescNext ==
    \/ NewTypeDescription
    \/ NewFunctionDescription
    \/ \E h \in CreatedHandles, name \in Names :
        \/ \E ty \in AddableTypes : add_field(h, name, ty)
        \/ \E dir \in Directions, ty \in ParameterTypes : add_parameter(h, name, dir, ty)
        \/ add_exception(h, name)
        \/ get(h, name)
        \/ get_parameter_by_name(h, name)
        \/ get_exception_by_name(h, name)
    \/ \E h \in CreatedHandles : Inlineable(h)
    \/ \E ty \in LenTypes : TypeLen(ty)
    \/ \E h \in CreatedHandles :
        \/ IterFields(h)
        \/ \E dir \in Directions : IterParameters(h, dir)
        \/ IterExceptions(h)

DescSpec == ConnInit /\ [][DescNext]_vars

\* ------------------------------------------------- types/date_time.rs

\* The decimal digits.
Digits == <<"0", "1", "2", "3", "4", "5", "6", "7", "8", "9">>

\* n.to_string(): the decimal digits of n.
RECURSIVE to_string(_)
to_string(n) ==
    IF n < 10 THEN <<Digits[n + 1]>> ELSE to_string(n \div 10) \o <<Digits[(n % 10) + 1]>>

\* format!("{:0width}", n): the digits of n, zero-padded to the width and
\* never cut.
Padded(n, width) == Fill("0", width - Len(to_string(n))) \o to_string(n)

\* The number a sequence of decimal digits denotes.
RECURSIVE DigitsValue(_)
DigitsValue(s) ==
    IF s = <<>> THEN 0
    ELSE 10 * DigitsValue(SubSeq(s, 1, Len(s) - 1))
            + (CHOOSE k \in 0..9 : Digits[k + 1] = s[Len(s)])

\* str::parse::<u32>() and ::<u8>() on a text of at most four characters:
\* the number, or an error for an empty text, a character that is no digit,
\* or a number above max.
parse(s, max) ==
    IF s = <<>> \/ (\E i \in 1..Len(s) : \A k \in 1..10 : Digits[k] # s[i])
    THEN None
    ELSE IF DigitsValue(s) > max THEN None ELSE Some(DigitsValue(s))

\* is_leap_year
is_leap_year(year) == year % 4 = 0 /\ (year % 100 # 0 \/ year % 400 = 0)

\* RFC_DATE::default(): eight zeroed units.
RFC_DATE == Fill("NUL", 8)

\* Date::new, the checks of the month and the day: "Ok", or the error type.
Date_check(year, month, day) ==
    CASE month < 1 \/ month > 12 -> "MonthOutOfRange"
      [] month # 2 /\ month % 2 = 0 /\ (day < 1 \/ day > 30) -> "DayOutOfRange"
      [] month # 2 /\ (day < 1 \/ day > 31) -> "DayOutOfRange"
      [] month = 2 /\ is_leap_year(year) /\ (day < 1 \/ day > 29) -> "DayOutOfRange"
      [] month = 2 /\ ~is_leap_year(year) /\ (day < 1 \/ day > 28) -> "DayOutOfRange"
      [] OTHER -> "Ok"

\* Date::new: the checks, then the text of the date written into an
\* RFC_DATE with write_without_nul(s).unwrap().
Date_new(year, month, day) ==
    LET checked == Date_check(year, month, day)
        s == Padded(year, 4) \o Padded(month, 2) \o Padded(day, 2)
        w == write_without_nul(RFC_DATE, Converted(s, Len(tmp_buffer(RFC_DATE))))
    IN CASE checked # "Ok" -> [checked |-> checked, result |-> "Err", date |-> RFC_DATE]
         [] w.result = "Err" -> [checked |-> checked, result |-> "Panic", date |-> RFC_DATE]
         [] OTHER -> [checked |-> checked, result |-> "Ok", date |-> w.uc]

\* Date::year
Date_year(date) == parse(SubSeq(FieldText(date), 1, 4), 9999)

\* Date::month
Date_month(date) == parse(SubSeq(FieldText(date), 5, 6), 255)

\* Date::day
Date_day(date) == parse(SubSeq(FieldText(date), 7, 8), 255)

\* impl TryFrom<RFC_DATE> for Date
Date_try_from(value) ==
    LET year == Date_year(value)
        month == Date_month(value)
        day == Date_day(value)
    IN CASE ~year.some -> [checked |-> "InvalidYear", result |-> "Err", date |-> RFC_DATE]
         [] ~month.some -> [checked |-> "InvalidMonth", result |-> "Err", date |-> RFC_DATE]
         [] ~day.some -> [checked |-> "InvalidDay", result |-> "Err", date |-> RFC_DATE]
         [] OTHER -> Date_new(year.val, month.val, day.val)

\* The years, months and days a date is asked for.
Years == {0, 4, 100, 400, 2020, 2021, 2023, 2100, 9999, 10000}

Months == 0..13

Days == 0..32

\* Date::new(year, month, day)
DateNew(year, month, day) ==
    /\ dt = NoDate
    /\ dt' = [stage |-> "new", year |-> year, month |-> month, day |-> day,
              r |-> Date_new(year, month, day)]
    /\ UNCHANGED <<connVars, wrapperVars, codecVars, errorVars, descVars, cp,
                   last, panicked>>

\* date.year(), date.month(), date.day(), and Date::try_from(RFC_DATE::from(date))
\* on the Date that Date::new returned.
DateRead ==
    /\ dt.stage = "new"
    /\ dt.r.result = "Ok"
    /\ dt' = [stage |-> "read", year |-> dt.year, month |-> dt.month, day |-> dt.day,
              r |-> dt.r,
              read |-> <<Date_year(dt.r.date), Date_month(dt.r.date), Date_day(dt.r.date)>>,
              back |-> Date_try_from(dt.r.date)]
    /\ UNCHANGED <<connVars, wrapperVars, codecVars, errorVars, descVars, cp,
                   last, panicked>>

DateNext ==
    \/ \E year \in Years, month \in Months, day \in Days : DateNew(year, month, day)
    \/ DateRead

DateSpec == ConnInit /\ [][DateNext]_vars

\* ----------------------------------------- types/connection_parameter.rs

\* The texts a name or a value is pushed with.
ParamTexts == {<<"A">>, <<"U+00DF">>}

Pairs == ParamTexts \X ParamTexts

\* ManuallyDrop::new(UCString::from(text)): the allocation of the units of
\* the text and their terminator, which leaves the allocation to its
\* pointer.  An allocation counts the times it was released.
Allocation(text) == [units |-> UCString_of(text), released |-> 0]

\* ConnectionParameters::push on the list (its items and, for reference, the
\* texts pushed) with the heap as it stands: the name and the value are
\* allocated, and the pointers to them are appended.
RECURSIVE push(_, _, _)
push(list, heap, pairs) ==
    IF pairs = <<>> THEN [list |-> list, heap |-> heap]
    ELSE LET name == Len(heap) + 1
             value == Len(heap) + 2
         IN push([list EXCEPT !.items = Append(@, [name |-> name, value |-> value]),
                              !.pushed = Append(@, pairs[1])],
                 heap \o <<Allocation(pairs[1][1]), Allocation(pairs[1][2])>>,
                 Tail(pairs))

\* ptr::drop_in_place(p as *mut SAP_UC): the one unit p points to is dropped
\* in place; a unit has no destructor, and the allocation it is in is not
\* released.
drop_in_place(heap, p) == heap

\* impl Drop for ConnectionParameters: drop_in_place on the name and on the
\* value of every item.
RECURSIVE ConnectionParameters_drop(_, _)
ConnectionParameters_drop(items, heap) ==
    IF items = <<>> THEN heap
    ELSE ConnectionParameters_drop(
            Tail(items),
            drop_in_place(drop_in_place(heap, items[1].name), items[1].value))

\* UCStr::from_ptr_with_nul(p).to_string_lossy(): the text of the units at p
\* up to their terminator.
PtrText(heap, p) == FieldText(heap[p].units)

\* ConnectionParameters::get that hands the name back for the value.
ConnectionParameters_get_name_twice(list, heap, index) ==
    IF index >= Len(list.items) THEN None
    ELSE Some(<<PtrText(heap, list.items[index + 1].name),
                PtrText(heap, list.items[index + 1].name)>>)

\* ConnectionParameters::get
ConnectionParameters_get(list, heap, index) ==
    IF index >= Len(list.items) THEN None
    ELSE Some(<<PtrText(heap, list.items[index + 1].name),
                PtrText(heap, list.items[index + 1].value)>>)

\* ConnectionParameterIterator::next, called until it returns None.
RECURSIVE ConnectionParameterIterator_next(_, _, _)
ConnectionParameterIterator_next(list, heap, index) ==
    LET res == ConnectionParameters_get(list, heap, index)
    IN IF ~res.some THEN <<>>
       ELSE <<res.val>> \o ConnectionParameterIterator_next(list, heap, index + 1)

\* The live lists.
LiveLists == {l \in 1..Len(cp.lists) : cp.lists[l].state = "live"}

\* ConnectionParameters::from(params.as_slice()): with_capacity, then a push
\* of every pair.
FromSlice(pairs) ==
    /\ cp.lists = <<>>
    /\ LET made == push([state |-> "live", items |-> <<>>, pushed |-> <<>>], cp.heap, pairs)
       IN cp' = [lists |-> <<made.list>>, heap |-> made.heap,
                 call |-> [op |-> "from", l |-> 1]]
    /\ UNCHANGED <<connVars, wrapperVars, codecVars, errorVars, descVars, dt,
                   last, panicked>>

\* params.push(name, value) on the live list l.
Push(l, pair) ==
    /\ l \in LiveLists
    /\ Len(cp.lists[l].items) < MaxPairs
    /\ LET made == push(cp.lists[l], cp.heap, <<pair>>)
       IN cp' = [lists |-> [cp.lists EXCEPT ![l] = made.list], heap |-> made.heap,
                 call |-> [op |-> "push", l |-> l]]
    /\ UNCHANGED <<connVars, wrapperVars, codecVars, errorVars, descVars, dt,
                   last, panicked>>

\* params.clone() on the live list l: #[derive(Clone)] clones the vector of
\* RFC_CONNECTION_PARAMETER, that is the pointers.
CloneParams(l) ==
    /\ l \in LiveLists
    /\ Len(cp.lists) < MaxLists
    /\ cp' = [cp EXCEPT !.lists = Append(@, cp.lists[l]),
                        !.call = [op |-> "clone", l |-> l]]
    /\ UNCHANGED <<connVars, wrapperVars, codecVars, errorVars, descVars, dt,
                   last, panicked>>

\* drop(params) on the live list l.
DropParams(l) ==
    /\ l \in LiveLists
    /\ cp' = [lists |-> [cp.lists EXCEPT ![l].state = "dropped"],
              heap |-> ConnectionParameters_drop(cp.lists[l].items, cp.heap),
              call |-> [op |-> "drop", l |-> l]]
    /\ UNCHANGED <<connVars, wrapperVars, codecVars, errorVars, descVars, dt,
                   last, panicked>>

\* params.len(), params.get(index) and params.iter() on the live list l.
ReadParams(l, index) ==
    /\ l \in LiveLists
    /\ cp' = [cp EXCEPT !.call =
                [op |-> "read", l |-> l, index |-> index,
                 len |-> Len(cp.lists[l].items),
                 get |-> ConnectionParameters_get(cp.lists[l], cp.heap, index),
                 iter |-> ConnectionParameterIterator_next(cp.lists[l], cp.heap, 0)]]
    /\ UNCHANGED <<connVars, wrapperVars, codecVars, errorVars, descVars, dt,
                   last, panicked>>

ParamNext ==
    \/ \E n \in 0..MaxPairs : \E pairs \in [1..n -> Pairs] : FromSlice(pairs)
    \/ \E l \in 1..MaxLists :
        \/ \E pair \in Pairs : Push(l, pair)
        \/ CloneParams(l)
        \/ DropParams(l)
        \/ \E index \in 0..MaxPairs : ReadParams(l, index)

ParamSpec == ConnInit /\ [][ParamNext]_vars

\* ------------------------------------- function.rs, builders and instances
\* The builder calls and the instantiations a program interleaves on its
\* owned function descriptions: Function::try_from(&desc) borrows the
\* description for the call only, and the builder methods stay callable
\* after it.
SealNext ==
    \/ NewFunctionDescription
    \/ \E h \in CreatedHandles :
        \/ CreateFunction(h)
        \/ \E name \in Names :
            \/ \E dir \in Directions : \E ty \in ParameterTypes :
                    add_parameter(h, name, dir, ty)
            \/ add_exception(h, name)

SealSpec == ConnInit /\ [][SealNext]_vars

\* ------------------------------------------------------------------ claims

\* C1: for every owning wrapper and every sequence of create, clone, convert
\* to bare handle and drop, the destroy entry point is invoked at most once
\* for any one handle: no drop passes a handle to destroy that was passed to
\* destroy before.
C1_DestroyAtMostOnce ==
    ~(last.op = "drop_wrapper" /\ "owner" \in last.stale)

\* C2: dropping a description obtained from describe_type / describe_function
\* never invokes the destroy entry point on the handle of the cached
\* description, which the foreign library owns.
C2_BorrowedNeverDestroyed ==
    destroyed \cap CacheHandles = {}

\* C3: no foreign entry point is invoked with a handle after that handle was
\* passed to destroy; stated for the case the claim names: a type description
\* used as the Structure/Table type of a field is never queried through that
\* field (get/iteration, then field_type with inlineable/len) after it was
\* dropped.
C3_NoUseAfterDestroyThroughField ==
    "field" \notin last.stale

\* C4: close on a Connection that is not live (after open and a successful
\* close) returns success, makes no foreign close call and leaves the
\* Connection not live.
C4_CloseIdempotent ==
    (last.op = "close" /\ ~is_alive(last.pre))
        => (last.result = "Ok" /\ last.calls = <<>> /\ ~is_alive(handle))

C4_Witness ==
    last.op = "close" /\ ~is_alive(last.pre) /\ conn = "present" /\ nextConn > 1

\* C5: ping on a Connection that is not live returns an Error Record, never
\* success.
C5_PingNotLiveFails ==
    (last.op = "ping" /\ ~is_alive(last.pre)) => last.result = "Err"

C5_Witness ==
    last.op = "ping" /\ ~is_alive(last.pre) /\ Len(last.calls) = 1

\* C6: ping (succeeding or failing), describe_type, describe_function and
\* attributes leave the Connection's handle, and so its liveness, as they
\* found it.
C6_ReadOnlyOps ==
    last.op \in {"ping", "attributes", "describe_type", "describe_function"}
        => handle = last.pre

C6_Witness ==
    last.op = "ping" /\ last.result = "Err" /\ is_alive(last.pre) /\ handle = last.pre

\* C7: dropping a live Connection makes exactly one foreign close call, on its
\* handle, and panics if and only if that close fails; dropping a Connection
\* that is not live makes no foreign call; so once the Connection is gone
\* without a panic, every handle open returned has been closed.
C7_DropClosesOnce ==
    /\ (last.op = "drop" /\ is_alive(last.pre))
        => /\ Len(last.calls) = 1
           /\ last.calls[1].fn = "RfcCloseConnection"
           /\ last.calls[1].h = last.pre
           /\ panicked <=> last.calls[1].rc # RFC_OK
    /\ (last.op = "drop" /\ ~is_alive(last.pre))
        => (last.calls = <<>> /\ ~panicked)
    /\ (conn = "absent" /\ ~panicked) => connLive = {}

C7_Witness ==
    last.op = "drop" /\ is_alive(last.pre) /\ Len(last.calls) = 1 /\ panicked

\* C8: when the destroy entry point reports a code other than RFC_OK during
\* the drop of an owning wrapper, the drop panics.
C8_FailedReleasePanics ==
    (last.op = "drop_wrapper" /\ last.calls[1].rc # RFC_OK) => panicked

\* C9: while a thread is blocked in a call over a live Connection, cancel can
\* be invoked on the Connection from another thread; and a cancel that
\* succeeds leaves the Connection not live.
C9_CancelWhileBlocked ==
    /\ (inCall # NoCall /\ is_alive(handle))
        => \E t \in Threads : t # inCall.t /\ ENABLED Cancel(t)
    /\ (last.op = "cancel" /\ last.result = "Ok") => ~is_alive(handle)

\* C10: every codec conversion (decode by to_string_lossy, owning encode by
\* UCString::from) makes at most two calls of the foreign conversion entry
\* point, whatever codes the foreign call returns.
C10_AtMostTwoCalls ==
    cv.calls <= 2

\* C11: when the foreign conversion returns a code that is neither RFC_OK nor
\* RFC_BUFFER_TOO_SMALL, the codec operation (decode, fixed-capacity encode,
\* owning encode) ends by returning an error to its caller: it neither goes
\* on to another call nor panics.
C11_ConversionErrorReturned ==
    cv.rc \notin {"none", RFC_OK, RFC_BUFFER_TOO_SMALL} => cv.state = "Err"

\* C12: codec round trip: decoding what an encode of text s produced (the
\* vector of UCString::from, or the target of a successful UCStr::write)
\* yields exactly s.
C12_RoundTrip ==
    (cv.op = "decode" /\ cv.state = "Ok" /\ cv.via \in {"encode", "write"})
        => cv.out = cv.text

\* C13: encoding never truncates silently: after a successful write or
\* write_without_nul the target, still of its own length, starts with all
\* the units of the text (followed by the terminator for write); a text of
\* more units than the target has makes both return an error; and
\* write_without_nul does not reject for size a text that fits the target
\* exactly.
C13_NoSilentTruncation ==
    /\ (cv.op \in {"write", "write_without_nul"} /\ cv.state = "Ok")
        => /\ Len(cv.uc) = cv.buf
           /\ UcLen(cv.text) <= cv.buf
           /\ SubSeq(cv.uc, 1, UcLen(cv.text)) = ToSapUc(cv.text)
           /\ cv.op = "write" => cv.uc[UcLen(cv.text) + 1] = "NUL"
    /\ (cv.op \in {"write", "write_without_nul"} /\ UcLen(cv.text) > cv.buf)
        => cv.state = "Err"
    /\ (cv.op = "write_without_nul" /\ cv.rc = RFC_BUFFER_TOO_SMALL)
        => UcLen(cv.text) > cv.buf

\* A text as long as the target was written into it without terminator.
C13_Witness ==
    /\ cv.op = "write_without_nul"
    /\ cv.state = "Ok"
    /\ cv.buf > 0
    /\ cv.uc = ToSapUc(cv.text)

\* C14: error record round trip: making an RfcError of a foreign error
\* structure and a structure of that RfcError gives back the same code, the
\* same group and the same nine text fields, and the message of the RfcError
\* is the text of the structure's message field.
C14_ErrorRoundTrip ==
    (er.stage = "back" /\ er.back.result = "Ok")
        => /\ er.back.info = er.info
           /\ er.error.message = FieldText(er.info.text["message"])

\* The smallest multiple of the length a that is not below x.
AlignUp(x, a) == ((x + a - 1) \div a) * a

\* C15: field append layout: after a successful add_field of a field of
\* lengths (fn, fu) to a description of running lengths (nuc, uc), the offset
\* recorded for the field in each layout is the smallest multiple of the
\* field's length in that layout that is not below the running length, and
\* the running length of the description is that offset plus the field's
\* length.
C15_FieldLayout ==
    (ret.op = "add_field" /\ ret.result = "Ok")
        => LET d == descs[ret.h]
               f == d.fields[Len(d.fields)]
           IN /\ f.nucLength > 0
                    => /\ f.nucOffset = AlignUp(ret.pre.nuc, f.nucLength)
                       /\ d.nuc = f.nucOffset + f.nucLength
              /\ f.ucLength > 0
                    => /\ f.ucOffset = AlignUp(ret.pre.uc, f.ucLength)
                       /\ d.uc = f.ucOffset + f.ucLength

\* C18: builder operations do not partially commit: when add_field,
\* add_parameter or add_exception returns an Error Record, the description
\* has the entries and the total lengths it had before the call.
C18_NoPartialCommit ==
    (ret.op \in {"add_field", "add_parameter", "add_exception"} /\ ret.result = "Err")
        => ret.pre = (IF ret.op = "add_field" THEN descs[ret.h] ELSE funcs[ret.h])

\* C17: Type::len returns the pair (non-unicode length, unicode length) of
\* the per-variant table: (n, 2n) for Char(n) for every n a word holds,
\* (8, 8) for Float and for every pointer-class type, and for Structure and
\* Table the lengths of the nested description when it is inlineable and
\* (8, 8) when it is not.
C17_TypeLenTable ==
    (ret.op = "Type::len")
        => /\ ret.ty.v = "Char" => ret.val = Some(<<ret.ty.len, 2 * ret.ty.len>>)
           /\ ret.ty.v \in PointerTypes \cup {"Float"} => ret.val = Some(<<8, 8>>)
           /\ (ret.ty.v \in {"Structure", "Table"} /\ ret.result # "Diverges")
                => ret.val = (IF TypeDesc_inlineable(ret.ty.td) = "T"
                              THEN Some(<<descs[ret.ty.td].nuc, descs[ret.ty.td].uc>>)
                              ELSE Some(<<8, 8>>))

\* The descriptions the fields of the description h refer to.
NestedOf(h) ==
    {descs[h].fields[i].typeDescHandle : i \in 1..Len(descs[h].fields)} \ {NULL}

\* The descriptions reached from those of S through at most n fields.
RECURSIVE Closure(_, _)
Closure(S, n) ==
    IF n = 0 THEN S ELSE Closure(S \cup UNION {NestedOf(g) : g \in S}, n - 1)

\* The description h has a field of a pointer-class type.
HasPointerField(h) ==
    \E i \in 1..Len(descs[h].fields) : field_type(descs[h].fields[i]).v \in PointerTypes

\* C16: a type description is inlineable if and only if every one of its
\* fields has an inlineable type: inlineable() answers false when a field of
\* a pointer-class type (String, XString, ABAPObject, Box, GenericBox) is in
\* the description or in a description nested in it, and true otherwise, in
\* particular for an empty description.
C16_Inlineable ==
    (ret.op = "inlineable")
        => ret.result = (IF \E g \in Closure({ret.h}, MaxHandles) : HasPointerField(g)
                         THEN "F" ELSE "T")

\* What the caller added with success to the description h under the name.
AddedAs(h, name) == {a \in added : a.h = h /\ a.name = name}

Searched ==
    CASE ret.op = "get" -> descs[ret.h].fields
      [] ret.op = "get_parameter_by_name" -> funcs[ret.h].params
      [] ret.op = "get_exception_by_name" -> funcs[ret.h].excs

OfDirection(h, dir) ==
    LET Matches(p) == direction(p) = dir
    IN SelectSeq(funcs[h].params, Matches)

\* C21: iterating parameters(d) of a function description yields exactly
\* the parameters whose direction is d, each once and in increasing index
\* order, and then ends; a parameter of another direction is skipped and
\* does not end the iteration.
C21_ParametersOfDirection ==
    (ret.op = "parameters")
        => /\ ret.result = "Ended"
           /\ ret.val.val = OfDirection(ret.h, ret.dir)

\* An iteration yielded a parameter that comes after a parameter of another
\* direction.
C21_Witness ==
    /\ ret.op = "parameters"
    /\ Len(ret.val.val) = 1
    /\ Len(funcs[ret.h].params) = 2
    /\ direction(funcs[ret.h].params[1]) # ret.dir

\* C22: the iteration over the fields of a type description, over the
\* parameters of a function description and over its exceptions is finite:
\* the iterator yields as many items as the description holds (fields,
\* parameters of the direction, exceptions) and then returns None, whether
\* or not the foreign get-by-index call reports an index out of range.
C22_IterationFinite ==
    /\ (ret.op = "fields")
        => ret.result = "Ended" /\ Len(ret.val.val) = Len(descs[ret.h].fields)
    /\ (ret.op = "parameters")
        => ret.result = "Ended" /\ Len(ret.val.val) = Len(OfDirection(ret.h, ret.dir))
    /\ (ret.op = "exceptions")
        => ret.result = "Ended" /\ Len(ret.val.val) = Len(funcs[ret.h].excs)

\* The days of the month of the year in the Gregorian calendar.
DaysIn(year, month) ==
    CASE month \in {1, 3, 5, 7, 8, 10, 12} -> 31
      [] month \in {4, 6, 9, 11} -> 30
      [] year % 4 = 0 /\ (year % 100 # 0 \/ year % 400 = 0) -> 29
      [] OTHER -> 28

\* C23: Date::new(year, month, day) succeeds if and only if the month is in
\* 1..12 and the day is a day of that month in that year of the Gregorian
\* calendar; otherwise it fails with MonthOutOfRange for the month and with
\* DayOutOfRange for the day.
C23_DateValid ==
    (dt.stage # "none")
        => /\ dt.r.result = "Ok"
                <=> (dt.month \in 1..12 /\ dt.day \in 1..DaysIn(dt.year, dt.month))
           /\ dt.month \notin 1..12
                => (dt.r.result = "Err" /\ dt.r.checked = "MonthOutOfRange")
           /\ (dt.month \in 1..12 /\ dt.day \notin 1..DaysIn(dt.year, dt.month))
                => (dt.r.result = "Err" /\ dt.r.checked = "DayOutOfRange")

\* C24: date round trip: for every year, month and day the checks of
\* Date::new accept, the construction does not panic, year(), month() and
\* day() of the Date return those three values, and the native eight
\* character representation of the Date converts back to an equal Date.
C24_DateRoundTrip ==
    /\ (dt.stage # "none" /\ dt.r.checked = "Ok") => dt.r.result = "Ok"
    /\ (dt.stage = "read")
        => /\ dt.read = <<Some(dt.year), Some(dt.month), Some(dt.day)>>
           /\ dt.back.result = "Ok"
           /\ dt.back.date = dt.r.date

\* The lists that refer to the allocation a.
Referring(a) ==
    {l \in 1..Len(cp.lists) :
        \E i \in 1..Len(cp.lists[l].items) :
            a \in {cp.lists[l].items[i].name, cp.lists[l].items[i].value}}

\* C26: every name and value string push allocates stays allocated while a
\* live parameter list refers to it, is never released twice, also when the
\* list is cloned, and has been released once when the lists that refer to
\* it are destroyed.
C26_ReleasedExactlyOnce ==
    \A a \in 1..Len(cp.heap) :
        /\ cp.heap[a].released <= 1
        /\ Referring(a) \cap LiveLists # {} => cp.heap[a].released = 0
        /\ Referring(a) \cap LiveLists = {} => cp.heap[a].released = 1

Sealed(d) ==
    /\ last.op = "Function::try_from"
    /\ last.pre = d
    /\ last.result = "Ok"

\* C25: once an owned function description has been used to instantiate a
\* Function, no add_parameter or add_exception call on it reaches the
\* foreign library.
C25_SealedNotMutated ==
    [][\A d \in CreatedHandles :
            Sealed(d) => ~(/\ ret' # ret
                           /\ ret'.op \in {"add_parameter", "add_exception"}
                           /\ ret'.h = d
                           /\ ret'.result \in {"Ok", "Err"})]_vars

\* The foreign calls of the last operation that went to the entry point fn.
CallsTo(fn) == {i \in 1..Len(last.calls) : last.calls[i].fn = fn}

\* C28: reopen is close followed by open. When the close fails, reopen
\* returns the error without calling open and the connection keeps its
\* handle; when the open fails after the close, reopen returns the error and
\* the connection is not live, so that a later close calls nothing; when
\* both succeed the connection holds the handle the open returned. The
\* foreign open is never called while the old handle is still live.
C28_ReopenIsCloseThenOpen ==
    (last.op = "reopen")
        => LET calls == last.calls
               closes == CallsTo("RfcCloseConnection")
               opens == CallsTo("RfcOpenConnection")
           IN /\ closes = (IF is_alive(last.pre) THEN {1} ELSE {})
              /\ \A i \in closes : calls[i].h = last.pre
              /\ (\E i \in closes : calls[i].rc # RFC_OK)
                    => /\ opens = {}
                       /\ last.result = "Err"
                       /\ handle = last.pre
              /\ (\A i \in closes : calls[i].rc = RFC_OK)
                    => /\ opens = {Len(calls)}
                       /\ last.pre \notin connLive
                       /\ IF calls[Len(calls)].rc = RFC_OK
                          THEN /\ last.result = "Ok"
                               /\ handle = nextConn - 1
                               /\ connLive = {handle}
                          ELSE /\ last.result = "Err"
                               /\ ~is_alive(handle)
                               /\ \A rc \in RfcCloseConnection(handle) :
                                      close(handle, connLive, rc).calls = <<>>

\* A reopen of a live connection whose close failed, and one whose close
\* succeeded and whose open failed, are reached (the second is this state).
C28_Witness ==
    /\ last.op = "reopen"
    /\ is_alive(last.pre)
    /\ Len(last.calls) = 2
    /\ last.result = "Err"

\* C29: a failed close or cancel returns the error and leaves the Connection
\* as it was, live with the same handle, so that a later close, cancel or
\* drop calls the foreign entry point on that handle again; the handle is
\* cleared only by a close or cancel that succeeded.
C29_FailedCloseKeepsHandle ==
    (last.op \in {"close", "cancel"} /\ is_alive(last.pre))
        => /\ Len(last.calls) = 1
           /\ last.calls[1].h = last.pre
           /\ last.result = check_rc(last.calls[1].rc)
           /\ IF last.result = "Err"
              THEN /\ handle = last.pre
                   /\ last.pre \in connLive
                   /\ \A rc \in RfcCloseConnection(handle) :
                        /\ close(handle, connLive, rc).calls
                                = <<Call("RfcCloseConnection", handle, rc)>>
                        /\ drop(handle, connLive, rc).close.calls
                                = <<Call("RfcCloseConnection", handle, rc)>>
                   /\ \A rc \in RfcCancel(handle) :
                        cancel(handle, connLive, rc).calls = <<Call("RfcCancel", handle, rc)>>
              ELSE /\ handle = NULL
                   /\ last.pre \notin connLive

\* A cancel of a live connection has failed.
C29_Witness ==
    /\ last.op = "cancel"
    /\ is_alive(last.pre)
    /\ last.result = "Err"
    /\ is_alive(handle)

\* C30: a Connection is live exactly when it holds a handle that a foreign
\* open returned and that no successful close or cancel has released; the
\* foreign library has no other connection open, so no live handle was
\* overwritten by an open; a failed open, in open or in reopen, stores no
\* handle, yields no live Connection and is followed by no foreign close.
C30_HandleInvariant ==
    /\ connLive = {handle} \ {NULL}
    /\ conn = "absent" /\ ~panicked => ~is_alive(handle)
    /\ (/\ last.op \in {"open", "reopen"}
        /\ \E i \in CallsTo("RfcOpenConnection") : last.calls[i].rc # RFC_OK)
            => /\ last.result = "Err"
               /\ ~is_alive(handle)
               /\ last.op = "open" => conn = "absent" /\ CallsTo("RfcCloseConnection") = {}
               /\ \A i \in CallsTo("RfcCloseConnection") :
                    \A j \in CallsTo("RfcOpenConnection") : i < j

\* A live connection was reopened with success: it holds another handle than
\* before, and that handle is the only one open.
C30_Witness ==
    /\ last.op = "reopen"
    /\ last.result = "Ok"
    /\ is_alive(last.pre)
    /\ is_alive(handle)
    /\ handle # last.pre

====
